---- MODULE Spec2Model ----
(***************************************************************************)
(* Model of archinstall's mirror subsystem:                                *)
(*   src/archinstall/lib/mirrors.py         (MirrorListHandler, menus)     *)
(*   src/archinstall/lib/models/mirrors.py  (entries, configuration)       *)
(*                                                                         *)
(* The specifications share the module, one per component:                 *)
(*   SpecLoader    the Mirror Repository Loader (load, remote, local)      *)
(*   SpecLocalFile the loader offline, over every local file               *)
(*   SpecSort      get_status_by_region on a loaded handler                *)
(*   SpecProbe     the speed probe of a mirror entry                       *)
(*   SpecConfig    MirrorConfiguration.json / parse_args                   *)
(*   SpecPersisted parse_args on documents of a configuration file         *)
(*   SpecReflector apply_reflector_config / run_reflector                  *)
(*   SpecLists     handle_action of the two list managers                  *)
(*                                                                         *)
(* Conventions.  An optional value (Python `X | None`) is a sequence of    *)
(* length at most one: <<>> is None, <<v>> is the value v.  A float score  *)
(* is an integer number of 1/ScoreScale units.  A text that the code       *)
(* inspects character by character is a sequence of one-character strings. *)
(***************************************************************************)
EXTENDS Integers, Sequences, FiniteSets, TLC

VARIABLES
    \* ---- loader (MirrorListHandler) ----
    offline,          \* arch_config_handler.args.offline
    status_mappings,  \* self._status_mappings: <<>> or <<mapping>>
    pc,               \* position inside load_mirrors
    caller,           \* entry point of the running / last call
    attempt_nr,       \* loop variable of load_remote_mirrors
    fetches,          \* fetch_data_from_url calls of the current call
    sleeps,           \* time.sleep arguments of the current call, in order
    localReads,       \* self._local_mirrorlist.open calls of the current call
    remoteResult,     \* return value of load_remote_mirrors: <<>>, <<TRUE>>, <<FALSE>>
    lastFeed,         \* document of the fetch that was parsed successfully
    localFile,        \* <<>> or <<[opened, lines]>>: the open/read of the local file
    lastOutcome,      \* how the fetch of the loader's last step ended, "none" if it made none
    loadedFrom,       \* which load filled status_mappings: "none", "remote", "local"
    loads,            \* number of calls started so far (bounded by MaxLoads)
    \* ---- speed probe (MirrorStatusEntryV3.speed) ----
    entries,          \* entry id -> [_speed, _speedtest_retries]
    reading,          \* entry of the running / last read of speed, 0 if none
    spc,              \* position inside the speed property
    probing,          \* the read entered `if self._speed is None`
    retry,            \* loop variable of the speed property
    downloads,        \* urlopen calls of the running / last read
    outcomes,         \* how the attempts of the running / last read ended
    returned,         \* entry id -> values returned by its completed reads
    latency,          \* entry id -> [_latency, pings, reads] of the latency property
    \* ---- configuration aggregate (json / parse_args) ----
    config,           \* the MirrorConfiguration
    document,         \* <<>> or <<result of config.json()>>
    parsed,           \* <<>> or <<outcome of the last parse_args call>>
    \* ---- reflector (apply_reflector_config / run_reflector) ----
    rpc,              \* position inside apply_reflector_config / run_reflector
    commands,         \* SysCommand invocations of the running / last call
    cmd_outcomes,     \* how each of these invocations ended, in the same order
    cmd_args,         \* <<>> or <<argument list handed to SysCommand by run_reflector>>
    exitCode,         \* exit code seen by run_reflector: <<>> or <<code>>
    result,           \* <<>> or <<return value of the last call>>
    calls,            \* calls started so far (bounded by MaxCalls)
    \* ---- list managers of the mirror menu (handle_action) ----
    repo_data,        \* the list CustomMirrorRepositoriesList works on
    server_data,      \* the list CustomMirrorServersList works on
    \* ---- reads of a region's entries (get_status_by_region) ----
    statusReads,      \* the get_status_by_region calls made so far, in order
    \* ---- MirrorConfiguration.regions_config ----
    configTexts,      \* the regions_config calls made so far, in order
    \* ---- configure_reflector ----
    flow              \* [pc, preset, before, answer, age_text, latest_text]

loaderVars == <<offline, status_mappings, pc, caller, attempt_nr, fetches,
                sleeps, localReads, remoteResult, lastFeed, localFile,
                lastOutcome, loadedFrom, loads>>
probeVars == <<entries, reading, spc, probing, retry, downloads, outcomes, returned,
               latency>>
configVars == <<config, document, parsed>>
reflectorVars == <<rpc, commands, cmd_outcomes, cmd_args, exitCode, result, calls>>
listVars == <<repo_data, server_data>>
sortVars == <<statusReads, configTexts>>
flowVars == <<flow>>
vars == <<loaderVars, probeVars, configVars, reflectorVars, listVars, sortVars, flowVars>>

(***************************************************************************)
(* Bounds of the model                                                     *)
(***************************************************************************)
MaxFeed == 2      \* entries in a feed document
MaxLines == 4     \* lines in the local mirror-list file
MaxLoads == 2     \* calls into the loader in one behaviour
NumEntries == 2   \* mirror entries whose speed is read
MaxReads == 2     \* reads of speed per entry

(***************************************************************************)
(* Texts                                                                   *)
(***************************************************************************)
StartsWith(s, p) == Len(s) >= Len(p) /\ SubSeq(s, 1, Len(p)) = p

Http == <<"h", "t", "t", "p">>
Https == <<"h", "t", "t", "p", "s">>
Httpx == <<"h", "t", "t", "p", "x">>
Rsync == <<"r", "s", "y", "n", "c">>

\* A url is [scheme, host, path]; its text is scheme "://" host "/" path.
UrlText(u) == u.scheme \o <<":", "/", "/">> \o <<u.host>> \o <<"/">> \o u.path

RepoSuffix == <<"$repo", "os", "$arch">>

\* Python's ordering of the region names that occur (code point order).
NameOrder == <<"", "DE", "FR", "Local", "RegionA", "RegionB", "Worldwide", "de">>
NameRank(n) == CHOOSE i \in 1..Len(NameOrder) : NameOrder[i] = n

(***************************************************************************)
(* Mirror entries and the remote feed (MirrorStatusEntryV3, ...ListV3)     *)
(***************************************************************************)
ScoreScale == 10                    \* a score s stands for the float s / 10
ScoreLimit == 100 * ScoreScale      \* the literal 100 of the score filter

\* round(): nearest integer, a tie goes to the even neighbour.
Round(v) ==
    LET q == v \div ScoreScale
        r == v % ScoreScale
    IN  IF 2 * r < ScoreScale THEN q * ScoreScale
        ELSE IF 2 * r > ScoreScale THEN (q + 1) * ScoreScale
        ELSE IF q % 2 = 0 THEN q * ScoreScale ELSE (q + 1) * ScoreScale

validate_score(value) == IF value # <<>> THEN <<Round(value[1])>> ELSE value

\* validate_score is declared as @classmethod(@field_validator(...)(f)):
\* the class attribute is a classmethod object wrapping pydantic's
\* validator proxy.  pydantic collects validators by looking for proxies
\* among the class attributes, so this one is not collected and the
\* `score` field keeps the raw float of the feed.
ScoreValidatorRegistered == FALSE

ScoreField(raw) == IF ScoreValidatorRegistered THEN validate_score(raw) ELSE raw

Entry(scheme, host, active, last_sync, score, country) ==
    [url |-> [scheme |-> scheme, host |-> host, path |-> <<>>],
     active |-> active, last_sync |-> last_sync, score |-> score,
     country |-> country, _speed |-> <<>>]

\* The feed entries the model draws documents from; the host names an entry.
FeedEntries == {
    Entry(Https, "a", TRUE,  <<1>>, <<15>>,   "DE"),
    Entry(Http,  "b", TRUE,  <<1>>, <<994>>,  "de"),
    Entry(Https, "c", TRUE,  <<1>>, <<996>>,  "DE"),
    Entry(Https, "d", TRUE,  <<1>>, <<1000>>, "DE"),
    Entry(Https, "e", FALSE, <<1>>, <<15>>,   "DE"),
    Entry(Https, "f", TRUE,  <<>>,  <<15>>,   "FR"),
    Entry(Https, "g", TRUE,  <<1>>, <<>>,     "FR"),
    Entry(Https, "h", TRUE,  <<1>>, <<0>>,    ""),
    Entry(Httpx, "j", TRUE,  <<1>>, <<15>>,   "DE"),
    Entry(Rsync, "k", TRUE,  <<1>>, <<15>>,   "DE") }

SeqsUpTo(S, n) == UNION {[1..k -> S] : k \in 0..n}

\* What fetch_data_from_url + model_validate_json can meet.
FetchOutcomes ==
    {[kind |-> "error"], [kind |-> "malformed"]}
    \cup {[kind |-> "doc", version |-> 3, urls |-> u] : u \in SeqsUpTo(FeedEntries, MaxFeed)}
    \cup {[kind |-> "doc", version |-> v, urls |-> <<>>] : v \in {1, 4}}

\* mutant: the version of the document is not looked at
check_model_anyVersion(data) == data.kind = "doc"

\* MirrorStatusListV3.check_model
check_model(data) == data.kind = "doc" /\ data.version = 3

\* what the attempt met: a network error, a malformed document, a document
\* of another version, or a well-formed document of version 3
OutcomeKind(o) ==
    IF o.kind # "doc" THEN o.kind
    ELSE IF o.version = 3 THEN "ok" ELSE "version"

\* mutant: an entry without last_sync passes the filter
BadCriteria_ignoresSync(mirror) ==
    \/ mirror.active = FALSE
    \/ (mirror.score = <<>> \/ mirror.score[1] >= ScoreLimit)

BadCriteria(mirror) ==
    \/ mirror.active = FALSE
    \/ mirror.last_sync = <<>>
    \/ (mirror.score = <<>> \/ mirror.score[1] >= ScoreLimit)

\* mutant: an empty country is left as it is
DefaultCountry_keepsEmpty(mirror) == mirror

DefaultCountry(mirror) ==
    IF mirror.country = "" THEN [mirror EXCEPT !.country = "Worldwide"] ELSE mirror

KeepUrl(mirror) == StartsWith(UrlText(mirror.url), Http)

RECURSIVE SortNames(_)
SortNames(S) ==
    IF S = {} THEN <<>>
    ELSE LET m == CHOOSE x \in S : \A y \in S : NameRank(x) <= NameRank(y)
         IN  <<m>> \o SortNames(S \ {m})

\* MirrorListHandler._parse_remote_mirror_list, on a validated document
parse_remote_mirror_list(urls) ==
    LET validated == [i \in 1..Len(urls) |-> [urls[i] EXCEPT !.score = ScoreField(urls[i].score)]]
        Good(m) == ~BadCriteria(m) /\ KeepUrl(m)
        kept == SelectSeq(validated, Good)
        placed == [i \in 1..Len(kept) |-> DefaultCountry(kept[i])]
        names == SortNames({placed[i].country : i \in 1..Len(placed)})
    IN  [k \in 1..Len(names) |->
            LET In(m) == m.country = names[k]
            IN  [region |-> names[k], entries |-> SelectSeq(placed, In)]]

(***************************************************************************)
(* The local mirror-list file (MirrorListHandler._parse_locale_mirrors)    *)
(***************************************************************************)
RemoveSuffix(path, suffix) ==
    IF Len(path) >= Len(suffix)
       /\ SubSeq(path, Len(path) - Len(suffix) + 1, Len(path)) = suffix
    THEN SubSeq(path, 1, Len(path) - Len(suffix))
    ELSE path

LocalUrl(host, path) == [scheme |-> Https, host |-> host, path |-> path]

\* '## ', the marker of a region line
Marker == "## "

\* The text of a line (after line.strip()) that the code takes apart is a
\* sequence of pieces: the marker, words, blanks.
RECURSIVE Join(_)
Join(pieces) == IF pieces = <<>> THEN "" ELSE Head(pieces) \o Join(Tail(pieces))

\* str.replace(old, ''): every occurrence of the piece goes
Replace(pieces, old) ==
    LET Keep(p) == p # old
    IN  SelectSeq(pieces, Keep)

\* str.strip(): leading and trailing blanks go
RECURSIVE Strip(_)
Strip(pieces) ==
    IF pieces = <<>> THEN pieces
    ELSE IF Head(pieces) = " " THEN Strip(Tail(pieces))
    ELSE IF pieces[Len(pieces)] = " " THEN Strip(SubSeq(pieces, 1, Len(pieces) - 1))
    ELSE pieces

\* current_region = line.replace('## ', '').strip()
RegionOfLine(text) == Join(Strip(Replace(text, Marker)))

LineRegionA == [kind |-> "header", text |-> <<Marker, "RegionA">>]
LineRegionB == [kind |-> "header", text |-> <<Marker, "RegionB">>]
LineBlankA == [kind |-> "header", text |-> <<Marker, " ", "RegionA">>]
LineDoubled == [kind |-> "header", text |-> <<Marker, Marker, "RegionB">>]
LineServerA == [kind |-> "server", url |-> LocalUrl("a", <<"test">> \o RepoSuffix)]
LineServerB == [kind |-> "server", url |-> LocalUrl("b", <<"test">>)]
LineOther == [kind |-> "other"]

\* The lines the model draws the file from; kind "header" is a line that
\* starts with '## ', kind "server" one that starts with 'Server = '.
FileLines == {LineRegionA, LineRegionB, LineBlankA, LineDoubled,
              LineServerA, LineServerB, LineOther}

LocalFiles == SeqsUpTo(FileLines, MaxLines)

\* The files the loader meets when it is followed through several loads.
LoaderFiles == {
    <<>>,
    <<LineServerA>>,
    <<LineRegionA, LineOther>>,
    <<LineRegionA, LineServerA, LineRegionB, LineServerB>> }

IndexOf(mirror_list, region) ==
    IF \E i \in 1..Len(mirror_list) : mirror_list[i].region = region
    THEN CHOOSE i \in 1..Len(mirror_list) : mirror_list[i].region = region
    ELSE 0

SetDefault(mirror_list, region) ==
    IF IndexOf(mirror_list, region) = 0
    THEN Append(mirror_list, [region |-> region, entries |-> <<>>])
    ELSE mirror_list

LocalEntry(url, current_region) ==
    [url |-> [url EXCEPT !.path = RemoveSuffix(url.path, RepoSuffix)],
     active |-> TRUE, last_sync |-> <<>>, score |-> <<>>,
     country |-> IF current_region # "" THEN current_region ELSE "Worldwide",
     _speed |-> <<>>]

\* one iteration of the loop over the lines; st = [mirror_list, current_region]
ParseLine(st, line) ==
    IF line.kind = "header"
    THEN [mirror_list |-> SetDefault(st.mirror_list, RegionOfLine(line.text)),
          current_region |-> RegionOfLine(line.text)]
    ELSE IF line.kind = "server"
    THEN LET region == IF st.current_region = "" THEN "Local" ELSE st.current_region
             ml == SetDefault(st.mirror_list, region)
             i == IndexOf(ml, region)
         IN  [mirror_list |-> [ml EXCEPT ![i].entries = Append(@, LocalEntry(line.url, region))],
              current_region |-> region]
    ELSE st

RECURSIVE ParseLines(_, _)
ParseLines(st, lines) ==
    IF lines = <<>> THEN st
    ELSE ParseLines(ParseLine(st, Head(lines)), Tail(lines))

parse_locale_mirrors(lines) ==
    ParseLines([mirror_list |-> <<>>, current_region |-> ""], lines).mirror_list

(***************************************************************************)
(* MirrorListHandler: load_mirrors, load_remote_mirrors,                   *)
(* load_local_mirrors, _mappings, get_mirror_regions                       *)
(***************************************************************************)
Attempts == 3                       \* attempts = 3 in load_remote_mirrors

\* mutant: the offline flag is not consulted
LoadEntry_ignoresOffline(off) == "remote"

\* load_mirrors: where the call goes first
LoadEntry(off) == IF off THEN "local" ELSE "remote"

\* mutant: the test of the remote result is inverted
AfterRemote_inverted(ok) == IF ok THEN "local" ELSE "done"

\* load_mirrors: `if not self.load_remote_mirrors(): self.load_local_mirrors()`
AfterRemote(ok) == IF ~ok THEN "local" ELSE "done"

\* mutant: a constant wait instead of a growing one
Backoff_constant(n) == 1

\* load_remote_mirrors: time.sleep(attempt_nr + 1)
Backoff(n) == n + 1

LoaderInit ==
    /\ offline \in BOOLEAN
    /\ status_mappings = <<>>
    /\ pc = "idle"
    /\ caller = "none"
    /\ attempt_nr = 0
    /\ fetches = 0
    /\ sleeps = <<>>
    /\ localReads = 0
    /\ remoteResult = <<>>
    /\ lastFeed = <<>>
    /\ localFile = <<>>
    /\ lastOutcome = "none"
    /\ loadedFrom = "none"
    /\ loads = 0

Returned == pc \in {"idle", "done", "raised"}

\* mutant: a load that fails drops the map it found
OnException_clears(mappings) == <<>>

\* self._status_mappings where an exception ends the attempt or the read:
\* neither the except branch nor the unwinding `with` assigns to it
OnException(mappings) == mappings

\* a call enters load_mirrors
StartLoad(c) ==
    /\ caller' = c
    /\ pc' = LoadEntry(offline)
    /\ attempt_nr' = 0
    /\ fetches' = 0
    /\ sleeps' = <<>>
    /\ localReads' = 0
    /\ remoteResult' = <<>>
    /\ lastFeed' = <<>>
    /\ localFile' = <<>>
    /\ lastOutcome' = "none"
    /\ loads' = loads + 1
    /\ UNCHANGED <<offline, status_mappings, loadedFrom>>

\* mirror_list_handler.load_mirrors() as called by the menus
CallLoadMirrors ==
    /\ Returned
    /\ loads < MaxLoads
    /\ StartLoad("load_mirrors")
    /\ UNCHANGED <<probeVars, configVars, reflectorVars, listVars, sortVars, flowVars>>

\* get_mirror_regions -> _mappings: loads only while nothing is loaded
CallGetMirrorRegions ==
    /\ Returned
    /\ loads < MaxLoads
    /\ IF status_mappings = <<>>
       THEN StartLoad("get_mirror_regions")
       ELSE /\ caller' = "get_mirror_regions"
            /\ pc' = "done"
            /\ attempt_nr' = 0
            /\ fetches' = 0
            /\ sleeps' = <<>>
            /\ localReads' = 0
            /\ remoteResult' = <<>>
            /\ lastFeed' = <<>>
            /\ localFile' = <<>>
            /\ lastOutcome' = "none"
            /\ loads' = loads + 1
            /\ UNCHANGED <<offline, status_mappings, loadedFrom>>
    /\ UNCHANGED <<probeVars, configVars, reflectorVars, listVars, sortVars, flowVars>>

\* one iteration of the retry loop whose fetch and parse succeed, the
\* fetch meeting one of `met`
RemoteOk(met) ==
    /\ pc = "remote"
    /\ \E o \in met :
        /\ check_model(o)
        /\ status_mappings' = <<parse_remote_mirror_list(o.urls)>>
        /\ lastFeed' = <<o.urls>>
        /\ lastOutcome' = OutcomeKind(o)
    /\ fetches' = fetches + 1
    /\ remoteResult' = <<TRUE>>
    /\ pc' = AfterRemote(TRUE)
    /\ loadedFrom' = "remote"
    /\ UNCHANGED <<offline, caller, attempt_nr, sleeps, localReads, localFile, loads>>
    /\ UNCHANGED <<probeVars, configVars, reflectorVars, listVars, sortVars, flowVars>>

RemoteAttemptOk == RemoteOk(FetchOutcomes)

\* one iteration of the retry loop that ends in `except Exception`
RemoteAttemptFail ==
    /\ pc = "remote"
    /\ \E o \in FetchOutcomes : ~check_model(o) /\ lastOutcome' = OutcomeKind(o)
    /\ fetches' = fetches + 1
    /\ sleeps' = Append(sleeps, Backoff(attempt_nr))
    /\ attempt_nr' = attempt_nr + 1
    /\ IF attempt_nr + 1 < Attempts
       THEN pc' = "remote" /\ remoteResult' = remoteResult
       ELSE pc' = AfterRemote(FALSE) /\ remoteResult' = <<FALSE>>
    /\ status_mappings' = OnException(status_mappings)
    /\ UNCHANGED <<offline, caller, localReads, lastFeed, localFile, loadedFrom, loads>>
    /\ UNCHANGED <<probeVars, configVars, reflectorVars, listVars, sortVars, flowVars>>

\* mutant: an unreadable file is taken for an empty one
OpenFailed_swallowed == "done"

\* load_local_mirrors has no handler around open(): the exception leaves
\* it, and load_mirrors has none either
OpenFailed == "raised"

\* load_local_mirrors, the file opens and holds one of `files`
LocalLoad(files) ==
    /\ pc = "local"
    /\ localReads' = localReads + 1
    /\ \E f \in files :
        /\ localFile' = <<[opened |-> TRUE, lines |-> f]>>
        /\ status_mappings' = <<parse_locale_mirrors(f)>>
    /\ loadedFrom' = "local"
    /\ pc' = "done"
    /\ lastOutcome' = "none"
    /\ UNCHANGED <<offline, caller, attempt_nr, fetches, sleeps, remoteResult, lastFeed, loads>>
    /\ UNCHANGED <<probeVars, configVars, reflectorVars, listVars, sortVars, flowVars>>

LocalLoadOk == LocalLoad(LoaderFiles)

\* the same with any file of up to MaxLines lines
LocalLoadAnyFile == LocalLoad(LocalFiles)

\* load_local_mirrors, open() raises: the exception leaves load_mirrors
LocalLoadFail ==
    /\ pc = "local"
    /\ localReads' = localReads + 1
    /\ localFile' = <<[opened |-> FALSE, lines |-> <<>>]>>
    /\ pc' = OpenFailed
    /\ status_mappings' = OnException(status_mappings)
    /\ lastOutcome' = "none"
    /\ UNCHANGED <<offline, caller, attempt_nr, fetches, sleeps,
                   remoteResult, lastFeed, loadedFrom, loads>>
    /\ UNCHANGED <<probeVars, configVars, reflectorVars, listVars, sortVars, flowVars>>

\* MirrorStatusEntryV3.server_url: f'{self.url}$repo/os/$arch'
server_url(mirror) == [mirror.url EXCEPT !.path = @ \o RepoSuffix]

\* MirrorListHandler.get_mirror_regions, on the loaded mapping
get_mirror_regions(mappings) ==
    [k \in 1..Len(mappings) |->
        [name |-> mappings[k].region,
         urls |-> [i \in 1..Len(mappings[k].entries) |->
                      server_url(mappings[k].entries[i])]]]

LoaderNext ==
    \/ CallLoadMirrors
    \/ CallGetMirrorRegions
    \/ RemoteAttemptOk
    \/ RemoteAttemptFail
    \/ LocalLoadOk
    \/ LocalLoadFail

(***************************************************************************)
(* MirrorStatusEntryV3.speed                                               *)
(***************************************************************************)
EntryIds == 1..NumEntries

DefaultRetries == 3                 \* self._speedtest_retries = 3

\* byte counts and elapsed times of a completed download (size / timer.time)
Sizes == {0, 4, 8}
Times == {1, 2, 4}

\* how one pass through the try block can end
DownloadOutcomes ==
    {[kind |-> "ok", size |-> sz, time |-> t] : sz \in Sizes, t \in Times}
    \cup {[kind |-> k] : k \in {"URLError", "IncompleteRead",
                                "ConnectionResetError", "Exception"}}

\* `if not self._speedtest_retries: ... elif self._speedtest_retries < 1: ...`
NormalRetries(r) ==
    IF r = <<>> \/ r[1] = 0 THEN <<DefaultRetries>>
    ELSE IF r[1] < 1 THEN <<1>>
    ELSE r

\* mutant: `if not self._speed:`, which also re-probes a speed of 0
NeedsProbe_falsy(e) == e._speed = <<>> \/ e._speed = <<0>>

\* `if self._speed is None:` at the top of the property
NeedsProbe(e) == e._speed = <<>>

\* the loop condition
LoopGoes(e, n) == n < e._speedtest_retries[1] /\ e._speed = <<>>

\* mutant: URLError handled like the errors that are retried
SpeedAfter_retriesURLError(o) ==
    IF o.kind = "ok" THEN <<o.size \div o.time>>
    ELSE IF o.kind \in {"URLError", "IncompleteRead", "ConnectionResetError"} THEN <<>>
    ELSE <<0>>

\* self._speed after the try/except of one attempt
SpeedAfter(o) ==
    IF o.kind = "ok" THEN <<o.size \div o.time>>
    ELSE IF o.kind = "URLError" THEN <<0>>
    ELSE IF o.kind \in {"IncompleteRead", "ConnectionResetError"} THEN <<>>
    ELSE <<0>>

\* mutant: the final `self._speed = 0` is missing
Finalize_keepsNone(sp) == sp

\* `if self._speed is None: self._speed = 0` after the loop
Finalize(sp) == IF sp = <<>> THEN <<0>> ELSE sp

ProbeInit ==
    /\ entries = [e \in EntryIds |-> [_speed |-> <<>>, _speedtest_retries |-> <<>>]]
    /\ reading = 0
    /\ spc = "idle"
    /\ probing = FALSE
    /\ retry = 0
    /\ downloads = 0
    /\ outcomes = <<>>
    /\ returned = [e \in EntryIds |-> <<>>]
    /\ latency = [e \in EntryIds |-> [_latency |-> <<>>, pings |-> 0, reads |-> <<>>]]

\* a read of e.speed begins; a memoized value is returned at once
ReadSpeed(e) ==
    /\ spc \in {"idle", "done"}
    /\ Len(returned[e]) < MaxReads
    /\ reading' = e
    /\ retry' = 0
    /\ downloads' = 0
    /\ outcomes' = <<>>
    /\ IF NeedsProbe(entries[e])
       THEN /\ entries' = [entries EXCEPT ![e]._speedtest_retries = NormalRetries(@)]
            /\ probing' = TRUE
            /\ spc' = "loop"
            /\ returned' = returned
       ELSE /\ entries' = entries
            /\ probing' = FALSE
            /\ spc' = "done"
            /\ returned' = [returned EXCEPT ![e] = Append(@, entries[e]._speed)]
    /\ latency' = latency
    /\ UNCHANGED <<loaderVars, configVars, reflectorVars, listVars, sortVars, flowVars>>

\* one iteration of the while loop
Attempt ==
    /\ spc = "loop"
    /\ LoopGoes(entries[reading], retry)
    /\ \E o \in DownloadOutcomes :
        /\ entries' = [entries EXCEPT ![reading]._speed = SpeedAfter(o)]
        /\ outcomes' = Append(outcomes, o.kind)
    /\ downloads' = downloads + 1
    /\ retry' = retry + 1
    /\ UNCHANGED <<reading, spc, probing, returned, latency>>
    /\ UNCHANGED <<loaderVars, configVars, reflectorVars, listVars, sortVars, flowVars>>

\* the loop is left: finalize and return
FinishRead ==
    /\ spc = "loop"
    /\ ~LoopGoes(entries[reading], retry)
    /\ LET sp == Finalize(entries[reading]._speed)
       IN  /\ entries' = [entries EXCEPT ![reading]._speed = sp]
           /\ returned' = [returned EXCEPT ![reading] = Append(@, sp)]
    /\ spc' = "done"
    /\ UNCHANGED <<reading, probing, retry, downloads, outcomes, latency>>
    /\ UNCHANGED <<loaderVars, configVars, reflectorVars, listVars, sortVars, flowVars>>

ProbeNext ==
    \/ \E e \in EntryIds : ReadSpeed(e)
    \/ Attempt
    \/ FinishRead

(***************************************************************************)
(* MirrorStatusEntryV3.latency                                             *)
(***************************************************************************)
\* what ping(hostname, timeout=2) returns: the milliseconds of the round
\* trip, or -1 when no reply came within the timeout
Timeout == 0 - 1
PingResults == {Timeout, 0, 1, 5, 9}

\* mutant: a stored timeout is probed again
NeedsPing_afterTimeout(l) == l._latency = <<>> \/ l._latency[1] < 0

\* `if self._latency is None`
NeedsPing(l) == l._latency = <<>>

\* one read of e.latency
ReadLatency(e) ==
    /\ spc \in {"idle", "done"}
    /\ Len(latency[e].reads) < MaxReads
    /\ IF NeedsPing(latency[e])
       THEN \E ms \in PingResults :
                latency' = [latency EXCEPT ![e] =
                               [_latency |-> <<ms>>,
                                pings |-> @.pings + 1,
                                reads |-> Append(@.reads, <<ms>>)]]
       ELSE latency' = [latency EXCEPT ![e].reads = Append(@, latency[e]._latency)]
    /\ UNCHANGED <<entries, reading, spc, probing, retry, downloads, outcomes, returned>>
    /\ UNCHANGED <<loaderVars, configVars, reflectorVars, listVars, sortVars, flowVars>>

LatencyNext == \E e \in EntryIds : ReadLatency(e)

(***************************************************************************)
(* Configuration aggregate: values, json() and parse_args()                *)
(***************************************************************************)
MaxRegions == 2   \* selected regions of a configuration
MaxServers == 2   \* custom servers of a configuration
MaxRepos == 1     \* custom repositories of a configuration
MaxOptional == 2  \* optional repositories of a configuration

\* A member of an Enum class is [enum, value]; its .value is the string.
Member(enum, value) == [enum |-> enum, value |-> value]

EnumValues(enum) ==
    IF enum = "Repository" THEN {"multilib", "testing"}
    ELSE IF enum = "SignCheck" THEN {"Never", "Optional", "Required"}
    ELSE IF enum = "SignOption" THEN {"TrustedOnly", "TrustAll"}
    ELSE IF enum = "ReflectorSortOrder" THEN {"age", "rate", "country", "score", "delay"}
    ELSE IF enum = "ReflectorProtocol" THEN {"http", "https", "ftp", "rsync"}
    ELSE {}

\* Enum(value): the lookup by value raises ValueError for an unknown value
IsValue(enum, v) == v \in EnumValues(enum)

ReflectorConfiguration(enabled, countries, protocols, age, latest, sort_order, verbose) ==
    [enabled |-> enabled, countries |-> countries, protocols |-> protocols,
     age |-> age, latest |-> latest, sort_order |-> sort_order, verbose |-> verbose]

\* ReflectorConfiguration(): the dataclass defaults
DefaultReflector ==
    ReflectorConfiguration(FALSE, <<>>, <<Member("ReflectorProtocol", "https")>>,
                           12, 20, Member("ReflectorSortOrder", "rate"), TRUE)

\* MirrorConfiguration(): the dataclass defaults
DefaultConfig ==
    [mirror_regions |-> <<>>, custom_servers |-> <<>>,
     optional_repositories |-> <<>>, custom_repositories |-> <<>>,
     reflector |-> DefaultReflector]

MirrorRegion(name, urls) == [name |-> name, urls |-> urls]
CustomServer(url) == [type |-> "CustomServer", url |-> url]
CustomRepository(name, url, sign_check, sign_option) ==
    [type |-> "CustomRepository", name |-> name, url |-> url,
     sign_check |-> sign_check, sign_option |-> sign_option]

ValueOf(member) == member.value

\* ReflectorConfiguration.json
ReflectorJson(r) ==
    [enabled |-> <<r.enabled>>, countries |-> <<r.countries>>,
     protocols |-> <<[i \in 1..Len(r.protocols) |-> ValueOf(r.protocols[i])]>>,
     age |-> <<r.age>>, latest |-> <<r.latest>>,
     sort_order |-> <<r.sort_order.value>>, verbose |-> <<r.verbose>>]

\* dict.get(key, default) on an optional key
Get(opt, default) == IF opt = <<>> THEN default ELSE opt[1]

\* ReflectorConfiguration.parse_args; <<>> when an Enum lookup raises
ReflectorParseArgs(args) ==
    LET protocols == Get(args.protocols, <<"https">>)
        sort_order == Get(args.sort_order, "rate")
        AsProtocol(p) == Member("ReflectorProtocol", p)
    IN  IF (\E i \in 1..Len(protocols) : ~IsValue("ReflectorProtocol", protocols[i]))
           \/ ~IsValue("ReflectorSortOrder", sort_order)
        THEN <<>>
        ELSE <<ReflectorConfiguration(
                 Get(args.enabled, FALSE),
                 Get(args.countries, <<>>),
                 [i \in 1..Len(protocols) |-> AsProtocol(protocols[i])],
                 Get(args.age, 12),
                 Get(args.latest, 20),
                 Member("ReflectorSortOrder", sort_order),
                 Get(args.verbose, TRUE))>>

\* CustomRepository.json
CustomRepositoryJson(c) ==
    [type |-> "dict", name |-> c.name, url |-> c.url,
     sign_check |-> c.sign_check.value, sign_option |-> c.sign_option.value]

\* CustomRepository.parse_args; <<>> when a subscript or an Enum lookup raises
CustomRepositoryParseArgs(args) ==
    LET Make(arg) == CustomRepository(arg.name, arg.url,
                                      Member("SignCheck", arg.sign_check),
                                      Member("SignOption", arg.sign_option))
    IN  IF \E i \in 1..Len(args) :
              \/ args[i].type # "dict"
              \/ ~IsValue("SignCheck", args[i].sign_check)
              \/ ~IsValue("SignOption", args[i].sign_option)
        THEN <<>>
        ELSE <<[i \in 1..Len(args) |-> Make(args[i])]>>

\* CustomServer.json (no caller in MirrorConfiguration.json)
CustomServerJson(c) == [type |-> "dict", url |-> c.url]

\* CustomServer.parse_args: arg['url'] raises TypeError on a CustomServer
\* object, which is not subscriptable; <<>> when it raises
CustomServerParseArgs(args) ==
    LET Make(arg) == CustomServer(arg.url)
    IN  IF \E i \in 1..Len(args) : args[i].type # "dict"
        THEN <<>>
        ELSE <<[i \in 1..Len(args) |-> Make(args[i])]>>

\* how json() stores the custom_servers key: the list itself
ServersJson(servers) == servers

\* dict.update over the regions in order: a repeated name keeps its first
\* position and takes the last url list
RECURSIVE RegionsDict(_, _)
RegionsDict(d, regions) ==
    IF regions = <<>> THEN d
    ELSE LET item == [key |-> Head(regions).name, value |-> Head(regions).urls]
             Hit(i) == d[i].key = item.key
         IN  IF \E i \in 1..Len(d) : Hit(i)
             THEN RegionsDict([i \in 1..Len(d) |-> IF Hit(i) THEN item ELSE d[i]], Tail(regions))
             ELSE RegionsDict(Append(d, item), Tail(regions))

\* MirrorConfiguration.json; every key of the document is optional
MirrorConfigurationJson(c) ==
    [mirror_regions |-> <<RegionsDict(<<>>, c.mirror_regions)>>,
     custom_servers |-> <<ServersJson(c.custom_servers)>>,
     optional_repositories |-> <<[i \in 1..Len(c.optional_repositories) |-> ValueOf(c.optional_repositories[i])]>>,
     custom_repositories |-> <<[i \in 1..Len(c.custom_repositories) |->
                                    CustomRepositoryJson(c.custom_repositories[i])]>>,
     custom_mirrors |-> <<>>,
     reflector |-> <<ReflectorJson(c.reflector)>>]

InSeq(x, s) == \E i \in 1..Len(s) : s[i] = x

\* mutant: the merge loop appends without looking
MergeRepos_appendsAll(optional, more) == optional \o more

\* the merge loop over backwards_compatible_repo
RECURSIVE MergeRepos(_, _)
MergeRepos(optional, more) ==
    IF more = <<>> THEN optional
    ELSE MergeRepos(IF InSeq(Head(more), optional) THEN optional
                    ELSE Append(optional, Head(more)), Tail(more))

\* mutant: the legacy key is looked at last and wins
RepositoriesKey_legacyWins(args) ==
    IF args.custom_mirrors # <<>> THEN "custom_mirrors"
    ELSE IF args.custom_repositories # <<>> THEN "custom_repositories"
    ELSE ""

\* the key config.custom_repositories is taken from: `if 'custom_mirrors'
\* in args` assigns first, `if 'custom_repositories' in args` assigns last
RepositoriesKey(args) ==
    IF args.custom_repositories # <<>> THEN "custom_repositories"
    ELSE IF args.custom_mirrors # <<>> THEN "custom_mirrors"
    ELSE ""

\* MirrorConfiguration.parse_args: [raised, config]
MirrorConfigurationParseArgs(args, backwards_compatible_repo) ==
    LET FromItem(item) == MirrorRegion(item.key, item.value)
        items == Get(args.mirror_regions, <<>>)
        regions == [i \in 1..Len(items) |-> FromItem(items[i])]
        servers == IF Get(args.custom_servers, <<>>) # <<>>
                   THEN CustomServerParseArgs(args.custom_servers[1])
                   ELSE <<DefaultConfig.custom_servers>>
        legacy == IF args.custom_mirrors # <<>>
                  THEN CustomRepositoryParseArgs(args.custom_mirrors[1])
                  ELSE <<DefaultConfig.custom_repositories>>
        current == IF args.custom_repositories # <<>>
                   THEN CustomRepositoryParseArgs(args.custom_repositories[1])
                   ELSE <<DefaultConfig.custom_repositories>>
        repos == IF RepositoriesKey(args) = "custom_repositories" THEN current ELSE legacy
        AsRepository(r) == Member("Repository", r)
        optional == IF args.optional_repositories # <<>>
                    THEN IF \E i \in 1..Len(args.optional_repositories[1]) :
                               ~IsValue("Repository", args.optional_repositories[1][i])
                         THEN <<>>
                         ELSE <<[i \in 1..Len(args.optional_repositories[1]) |->
                                   AsRepository(args.optional_repositories[1][i])]>>
                    ELSE <<DefaultConfig.optional_repositories>>
        refl == IF args.reflector # <<>>
                THEN ReflectorParseArgs(args.reflector[1])
                ELSE <<DefaultConfig.reflector>>
    IN  IF servers = <<>> \/ legacy = <<>> \/ current = <<>> \/ optional = <<>> \/ refl = <<>>
        THEN [raised |-> TRUE, config |-> <<>>]
        ELSE [raised |-> FALSE,
              config |-> <<[mirror_regions |-> regions,
                            custom_servers |-> servers[1],
                            optional_repositories |->
                                MergeRepos(optional[1], backwards_compatible_repo),
                            custom_repositories |-> repos[1],
                            reflector |-> refl[1]]>>]

(***************************************************************************)
(* The configurations the model starts from                                *)
(***************************************************************************)
InjSeqs(S, n) == {q \in SeqsUpTo(S, n) : \A i, j \in 1..Len(q) : i # j => q[i] # q[j]}

RegionNames == {"DE", "FR"}
RegionUrls(name) == IF name = "DE" THEN <<"https://a/$repo/os/$arch", "https://c/$repo/os/$arch">>
                    ELSE <<"http://b/$repo/os/$arch">>
ToRegion(name) == MirrorRegion(name, RegionUrls(name))
RegionLists == {[i \in 1..Len(q) |-> ToRegion(q[i])] : q \in InjSeqs(RegionNames, MaxRegions)}

ServerLists == InjSeqs({CustomServer(u) : u \in {"https://x/", "https://y/"}}, MaxServers)

Repositories == {Member("Repository", v) : v \in EnumValues("Repository")}
OptionalLists == InjSeqs(Repositories, MaxOptional)

CustomRepos == {
    CustomRepository("extra", "https://x/", Member("SignCheck", "Required"),
                     Member("SignOption", "TrustAll")),
    CustomRepository("own", "https://y/", Member("SignCheck", "Never"),
                     Member("SignOption", "TrustedOnly")) }
RepoLists == InjSeqs(CustomRepos, MaxRepos)

Protocol(v) == Member("ReflectorProtocol", v)
SortOrder(v) == Member("ReflectorSortOrder", v)

ReflectorConfigs ==
    {ReflectorConfiguration(en, cs, ps, al[1], al[2], so, vb) :
        en \in BOOLEAN,
        al \in {<<12, 20>>, <<6, 5>>},
        cs \in {<<>>, <<"Brazil">>, <<"Brazil", "Chile">>},
        ps \in {<<>>, <<Protocol("https")>>, <<Protocol("http"), Protocol("https")>>},
        so \in {SortOrder("rate"), SortOrder("score")},
        vb \in BOOLEAN}

ReflectorSamples ==
    {DefaultReflector,
     ReflectorConfiguration(TRUE, <<"Brazil", "Chile">>, <<>>, 6, 5, SortOrder("score"), FALSE)}

Configs ==
    {[mirror_regions |-> rs, custom_servers |-> ss, optional_repositories |-> os,
      custom_repositories |-> cs, reflector |-> rf] :
        rs \in RegionLists, ss \in ServerLists, os \in OptionalLists,
        cs \in RepoLists, rf \in ReflectorSamples}

\* the backwards_compatible_repo lists a caller passes
SuppliedLists == SeqsUpTo(Repositories, MaxOptional)

\* Persisted documents as a user's configuration file can hold them: the
\* repository list under the legacy key, the current key, both or neither,
\* and any list of repository identifiers.
RepoDictLists == {[i \in 1..Len(q) |-> CustomRepositoryJson(q[i])] : q \in RepoLists}
Optionally(S) == {<<>>} \cup {<<x>> : x \in S}

PersistedDocs ==
    {[mirror_regions |-> <<>>, custom_servers |-> <<>>,
      optional_repositories |-> os, custom_repositories |-> cr,
      custom_mirrors |-> cm, reflector |-> <<>>] :
        os \in Optionally(SeqsUpTo(EnumValues("Repository"), MaxOptional)),
        cr \in Optionally(RepoDictLists),
        cm \in Optionally(RepoDictLists)}

\* a document read from the configuration file, not yet parsed
PersistedInit ==
    /\ config = DefaultConfig
    /\ document \in {<<d>> : d \in PersistedDocs}
    /\ parsed = <<>>

ConfigInit ==
    /\ config \in Configs
    /\ document = <<>>
    /\ parsed = <<>>

ConfigRest ==
    /\ config = DefaultConfig
    /\ document = <<>>
    /\ parsed = <<>>

\* document = config.json()
Json ==
    /\ document' = <<MirrorConfigurationJson(config)>>
    /\ parsed' = <<>>
    /\ UNCHANGED config
    /\ UNCHANGED <<loaderVars, probeVars, reflectorVars, listVars, sortVars, flowVars>>

\* MirrorConfiguration.parse_args(document, backwards_compatible_repo)
ParseArgs ==
    /\ document # <<>>
    /\ \E bc \in SuppliedLists :
        parsed' = <<[args |-> document[1], backwards_compatible_repo |-> bc,
                     out |-> MirrorConfigurationParseArgs(document[1], bc)]>>
    /\ UNCHANGED <<config, document>>
    /\ UNCHANGED <<loaderVars, probeVars, reflectorVars, listVars, sortVars, flowVars>>

ConfigNext ==
    \/ Json
    \/ ParseArgs

(***************************************************************************)
(* apply_reflector_config, run_reflector, _ensure_reflector_installed      *)
(***************************************************************************)
MaxCalls == 2     \* calls of apply_reflector_config / run_reflector

\* how a SysCommand(...) can end: exit code 0, another exit code, exception
SysOutcomes == {"exit0", "nonzero", "raise"}

\* mutant: run_reflector without its guard
RunEntry_noGuard(r) == "which"

\* run_reflector: `if not reflector_config.enabled: return False`
RunEntry(r) == IF ~r.enabled THEN "returned" ELSE "which"

\* apply_reflector_config: `if self.reflector.enabled: return run_reflector(...)`
ApplyEntry(r) == IF r.enabled THEN RunEntry(r) ELSE "returned"

\* _ensure_reflector_installed: SysCommand(['which', 'reflector'])
WhichNext(o) == IF o = "raise" THEN "install" ELSE "invoke"

\* mutant: a failed install is not noticed
InstallNext_ignoresFailure(o) == "invoke"

\* _ensure_reflector_installed: SysCommand(['pacman', '-Sy', ...])
InstallNext(o) == IF o = "raise" THEN "returned" ELSE "invoke"

\* mutant: the exit code is not looked at
InvokeResult_ignoresExit(o) == o # "raise"

\* run_reflector: the try block around SysCommand(cmd_args)
InvokeNext(o) == "returned"
InvokeResult(o) == IF o = "exit0" THEN TRUE ELSE FALSE

\* str(n) of an int
Digit(d) == <<"0", "1", "2", "3", "4", "5", "6", "7", "8", "9">>[d + 1]

RECURSIVE Str(_)
Str(n) ==
    IF n < 0 THEN "-" \o Str(0 - n)
    ELSE IF n < 10 THEN Digit(n)
    ELSE Str(n \div 10) \o Digit(n % 10)

\* ','.join(names)
RECURSIVE JoinComma(_)
JoinComma(names) ==
    IF names = <<>> THEN ""
    ELSE IF Len(names) = 1 THEN names[1]
    ELSE names[1] \o "," \o JoinComma(Tail(names))

\* mutant: --protocol is put whether or not a protocol is set
to_command_args_alwaysProtocol(r) ==
    <<"reflector">>
    \o (IF r.verbose THEN <<"--verbose">> ELSE <<>>)
    \o (IF r.countries # <<>> THEN <<"--country", JoinComma(r.countries)>> ELSE <<>>)
    \o <<"--protocol", JoinComma([i \in 1..Len(r.protocols) |-> ValueOf(r.protocols[i])])>>
    \o <<"--age", Str(r.age), "--latest", Str(r.latest), "--sort", r.sort_order.value>>

\* ReflectorConfiguration.to_command_args
to_command_args(r) ==
    <<"reflector">>
    \o (IF r.verbose THEN <<"--verbose">> ELSE <<>>)
    \o (IF r.countries # <<>> THEN <<"--country", JoinComma(r.countries)>> ELSE <<>>)
    \o (IF r.protocols # <<>>
        THEN <<"--protocol", JoinComma([i \in 1..Len(r.protocols) |-> ValueOf(r.protocols[i])])>>
        ELSE <<>>)
    \o <<"--age", Str(r.age), "--latest", Str(r.latest), "--sort", r.sort_order.value>>

\* str(target_path), the default of run_reflector's caller
TargetPath == "/etc/pacman.d/mirrorlist"

ReflectorInit ==
    /\ rpc = "idle"
    /\ commands = <<>>
    /\ cmd_outcomes = <<>>
    /\ cmd_args = <<>>
    /\ exitCode = <<>>
    /\ result = <<>>
    /\ calls = 0

RReturned == rpc \in {"idle", "returned", "raised"}

Enter(position) ==
    /\ rpc' = position
    /\ commands' = <<>>
    /\ cmd_outcomes' = <<>>
    /\ cmd_args' = <<>>
    /\ exitCode' = <<>>
    /\ result' = IF position = "returned" THEN <<FALSE>> ELSE <<>>
    /\ calls' = calls + 1
    /\ UNCHANGED config

\* config.apply_reflector_config(target_path)
CallApplyReflectorConfig ==
    /\ RReturned
    /\ calls < MaxCalls
    /\ Enter(ApplyEntry(config.reflector))
    /\ UNCHANGED <<document, parsed>>
    /\ UNCHANGED <<loaderVars, probeVars, listVars, sortVars, flowVars>>

\* mirror_list_handler.run_reflector(config.reflector, target_path)
CallRunReflector ==
    /\ RReturned
    /\ calls < MaxCalls
    /\ Enter(RunEntry(config.reflector))
    /\ UNCHANGED <<document, parsed>>
    /\ UNCHANGED <<loaderVars, probeVars, listVars, sortVars, flowVars>>

Step(position, res) ==
    /\ rpc' = position
    /\ result' = IF position = "returned" THEN <<res>> ELSE <<>>
    /\ UNCHANGED <<calls, configVars, loaderVars, probeVars, listVars, sortVars, flowVars>>

\* the presence check
Which ==
    /\ rpc = "which"
    /\ commands' = Append(commands, "which")
    /\ \E o \in SysOutcomes :
        /\ Step(WhichNext(o), FALSE)
        /\ cmd_outcomes' = Append(cmd_outcomes, o)
    /\ UNCHANGED <<cmd_args, exitCode>>

\* the unattended install
Install ==
    /\ rpc = "install"
    /\ commands' = Append(commands, "pacman")
    /\ \E o \in SysOutcomes :
        /\ Step(InstallNext(o), FALSE)
        /\ cmd_outcomes' = Append(cmd_outcomes, o)
    /\ UNCHANGED <<cmd_args, exitCode>>

\* the ranking utility
Invoke ==
    /\ rpc = "invoke"
    /\ commands' = Append(commands, "reflector")
    /\ cmd_args' = <<to_command_args(config.reflector) \o <<"--save", TargetPath>>>>
    /\ \E o \in SysOutcomes :
        /\ Step(InvokeNext(o), InvokeResult(o))
        /\ cmd_outcomes' = Append(cmd_outcomes, o)
        /\ exitCode' = IF o = "exit0" THEN <<0>> ELSE IF o = "nonzero" THEN <<1>> ELSE <<>>

ReflectorNext ==
    \/ CallApplyReflectorConfig
    \/ CallRunReflector
    \/ Which
    \/ Install
    \/ Invoke

(***************************************************************************)
(* The list managers of the mirror menu:                                   *)
(* CustomMirrorRepositoriesList / CustomMirrorServersList .handle_action   *)
(***************************************************************************)
MaxList == 2      \* elements of a list before an add

\* self._actions[0], [1], [2] of either list manager
ActionAdd == "add"
ActionChange == "change"
ActionDelete == "delete"

\* CustomMirrorRepositoriesList.handle_action; entry and new_repo are
\* optional, new_repo is what _add_custom_repository returned
RepositoriesHandleAction(action, entry, new_repo, data) ==
    IF action = ActionAdd
    THEN IF new_repo # <<>>
         THEN LET Other(d) == d.name # new_repo[1].name
              IN  SelectSeq(data, Other) \o <<new_repo[1]>>
         ELSE data
    ELSE IF action = ActionChange /\ entry # <<>>
    THEN IF new_repo # <<>>
         THEN LET Other(d) == d.name # entry[1].name
              IN  SelectSeq(data, Other) \o <<new_repo[1]>>
         ELSE data
    ELSE IF action = ActionDelete /\ entry # <<>>
    THEN LET Other(d) == d # entry[1]
         IN  SelectSeq(data, Other)
    ELSE data

\* CustomMirrorServersList.handle_action
ServersHandleAction(action, entry, new_server, data) ==
    IF action = ActionAdd
    THEN IF new_server # <<>>
         THEN LET Other(d) == d.url # new_server[1].url
              IN  SelectSeq(data, Other) \o <<new_server[1]>>
         ELSE data
    ELSE IF action = ActionChange /\ entry # <<>>
    THEN IF new_server # <<>>
         THEN LET Other(d) == d.url # entry[1].url
              IN  SelectSeq(data, Other) \o <<new_server[1]>>
         ELSE data
    ELSE IF action = ActionDelete /\ entry # <<>>
    THEN LET Other(d) == d # entry[1]
         IN  SelectSeq(data, Other)
    ELSE data

\* what the user can enter in _add_custom_repository / _add_custom_server
EnteredRepos ==
    {CustomRepository(n, u, Member("SignCheck", "Required"), Member("SignOption", "TrustAll")) :
        n \in {"extra", "own"}, u \in {"https://x/", "https://y/"}}
EnteredServers == {CustomServer(u) : u \in {"https://x/", "https://y/", "https://z/"}}

\* _add_custom_repository(preset) / _add_custom_server(preset): the preset
\* when the user skips a prompt, the entered element otherwise
AddResults(preset, entered) == {preset} \cup {<<e>> : e \in entered}

Elements(data) == {data[i] : i \in 1..Len(data)}

\* the menus start from lists whose keys are pairwise distinct
ListInit ==
    /\ repo_data \in {q \in SeqsUpTo(EnteredRepos, MaxList) :
                        \A i, j \in 1..Len(q) : i # j => q[i].name # q[j].name}
    /\ server_data \in {q \in SeqsUpTo(EnteredServers, MaxList) :
                          \A i, j \in 1..Len(q) : i # j => q[i].url # q[j].url}

AddRepository ==
    /\ Len(repo_data) < MaxList
    /\ \E new \in AddResults(<<>>, EnteredRepos) :
        repo_data' = RepositoriesHandleAction(ActionAdd, <<>>, new, repo_data)
    /\ UNCHANGED <<server_data, loaderVars, probeVars, configVars, reflectorVars, sortVars, flowVars>>

ChangeRepository ==
    /\ \E entry \in Elements(repo_data) :
        \E new \in AddResults(<<entry>>, EnteredRepos) :
            repo_data' = RepositoriesHandleAction(ActionChange, <<entry>>, new, repo_data)
    /\ UNCHANGED <<server_data, loaderVars, probeVars, configVars, reflectorVars, sortVars, flowVars>>

DeleteRepository ==
    /\ \E entry \in Elements(repo_data) :
        repo_data' = RepositoriesHandleAction(ActionDelete, <<entry>>, <<>>, repo_data)
    /\ UNCHANGED <<server_data, loaderVars, probeVars, configVars, reflectorVars, sortVars, flowVars>>

AddServer ==
    /\ Len(server_data) < MaxList
    /\ \E new \in AddResults(<<>>, EnteredServers) :
        server_data' = ServersHandleAction(ActionAdd, <<>>, new, server_data)
    /\ UNCHANGED <<repo_data, loaderVars, probeVars, configVars, reflectorVars, sortVars, flowVars>>

ChangeServer ==
    /\ \E entry \in Elements(server_data) :
        \E new \in AddResults(<<entry>>, EnteredServers) :
            server_data' = ServersHandleAction(ActionChange, <<entry>>, new, server_data)
    /\ UNCHANGED <<repo_data, loaderVars, probeVars, configVars, reflectorVars, sortVars, flowVars>>

DeleteServer ==
    /\ \E entry \in Elements(server_data) :
        server_data' = ServersHandleAction(ActionDelete, <<entry>>, <<>>, server_data)
    /\ UNCHANGED <<repo_data, loaderVars, probeVars, configVars, reflectorVars, sortVars, flowVars>>

ListNext ==
    \/ AddRepository
    \/ ChangeRepository
    \/ DeleteRepository
    \/ AddServer
    \/ ChangeServer
    \/ DeleteServer

(***************************************************************************)
(* MirrorListHandler.get_status_by_region                                  *)
(***************************************************************************)
MaxRegionList == 3   \* entries of the feed / lines of the file behind a read
MaxSorts == 2        \* get_status_by_region calls in one behaviour

\* mutant: the key is the score alone
KeyLess_byScoreOnly(a, b) ==
    IF a.score # b.score THEN a.score[1] < b.score[1] ELSE FALSE

\* (a.score, a.speed) < (b.score, b.speed) as Python compares tuples: the
\* first components that differ decide
KeyLess(a, b) ==
    IF a.score # b.score THEN a.score[1] < b.score[1]
    ELSE a._speed[1] < b._speed[1]

\* comparing None with a float raises TypeError
Comparable(list) ==
    \A i, j \in 1..Len(list) : (list[i].score = <<>>) <=> (list[j].score = <<>>)

\* sorted(): stable, an element goes behind the elements that are not greater
RECURSIVE Insert(_, _)
Insert(done, m) ==
    IF done = <<>> THEN <<m>>
    ELSE IF KeyLess(m, Head(done)) THEN <<m>> \o done
    ELSE <<Head(done)>> \o Insert(Tail(done), m)

RECURSIVE Sorted(_)
Sorted(list) ==
    IF list = <<>> THEN <<>>
    ELSE Insert(Sorted(SubSeq(list, 1, Len(list) - 1)), list[Len(list)])

\* what a read of .speed leaves on an entry that had no speed yet
SortSpeeds == {0, 4}

\* mutant: every element is probed, whether it holds a speed or not
Unprobed_all(list) == 1..Len(list)

\* the key function reads mirror.speed of every element of the list: an
\* entry without a speed is probed and keeps what was measured
Unprobed(list) == {i \in 1..Len(list) : list[i]._speed = <<>>}

Measure(list, measured) ==
    [i \in 1..Len(list) |->
        IF i \in Unprobed(list) THEN [list[i] EXCEPT !._speed = <<measured[i]>>]
        ELSE list[i]]

\* the feed entries and file lines behind the mappings that are read
SortEntries == {e \in FeedEntries : e.url.host \in {"a", "c"}}
SortLines == {LineRegionA, LineServerA, LineServerB}

\* the loader after one load from the remote feed
AfterRemoteLoad(urls) ==
    /\ offline = FALSE
    /\ status_mappings = <<parse_remote_mirror_list(urls)>>
    /\ pc = "done"
    /\ caller = "load_mirrors"
    /\ attempt_nr = 0
    /\ fetches = 1
    /\ sleeps = <<>>
    /\ localReads = 0
    /\ remoteResult = <<TRUE>>
    /\ lastFeed = <<urls>>
    /\ localFile = <<>>
    /\ lastOutcome = "ok"
    /\ loadedFrom = "remote"
    /\ loads = 1

\* the loader after one load from the local file, offline
AfterLocalLoad(lines) ==
    /\ offline = TRUE
    /\ status_mappings = <<parse_locale_mirrors(lines)>>
    /\ pc = "done"
    /\ caller = "load_mirrors"
    /\ attempt_nr = 0
    /\ fetches = 0
    /\ sleeps = <<>>
    /\ localReads = 1
    /\ remoteResult = <<>>
    /\ lastFeed = <<>>
    /\ localFile = <<[opened |-> TRUE, lines |-> lines]>>
    /\ lastOutcome = "none"
    /\ loadedFrom = "local"
    /\ loads = 1

SortInit ==
    /\ \/ \E urls \in SeqsUpTo(SortEntries, MaxRegionList) : AfterRemoteLoad(urls)
       \/ \E lines \in SeqsUpTo(SortLines, MaxRegionList) : AfterLocalLoad(lines)
    /\ statusReads = <<>>
    /\ configTexts = <<>>

RegionKeys(mappings) == {mappings[k].region : k \in 1..Len(mappings)}

\* get_status_by_region(region, speed_sort) for a region of the mapping
GetStatusByRegion ==
    /\ Returned
    /\ status_mappings # <<>>
    /\ Len(statusReads) < MaxSorts
    /\ \E region \in RegionKeys(status_mappings[1]), speed_sort \in BOOLEAN :
        LET k == IndexOf(status_mappings[1], region)
            region_list == status_mappings[1][k].entries
        IN  \E measured \in [Unprobed(region_list) -> SortSpeeds] :
                LET probed == Measure(region_list, measured)
                IN  /\ status_mappings' = <<[status_mappings[1] EXCEPT ![k].entries = probed]>>
                    /\ statusReads' = Append(statusReads,
                            [region |-> region, speed_sort |-> speed_sort,
                             before |-> region_list, list |-> probed,
                             raised |-> IF Comparable(probed) THEN "" ELSE "TypeError",
                             out |-> IF Comparable(probed) THEN Sorted(probed) ELSE <<>>])
    /\ UNCHANGED <<offline, pc, caller, attempt_nr, fetches, sleeps, localReads,
                   remoteResult, lastFeed, localFile, lastOutcome, loadedFrom, loads>>
    /\ UNCHANGED <<probeVars, configVars, reflectorVars, listVars, configTexts, flowVars>>

\* get_status_by_region for a name that is no key: mappings[region] raises
GetStatusUnknownRegion ==
    /\ Returned
    /\ status_mappings # <<>>
    /\ Len(statusReads) < MaxSorts
    /\ \E speed_sort \in BOOLEAN :
        statusReads' = Append(statusReads,
            [region |-> "Nowhere", speed_sort |-> speed_sort,
             before |-> <<>>, list |-> <<>>, raised |-> "KeyError", out |-> <<>>])
    /\ UNCHANGED loaderVars
    /\ UNCHANGED <<probeVars, configVars, reflectorVars, listVars, configTexts, flowVars>>

SortNext ==
    \/ GetStatusByRegion
    \/ GetStatusUnknownRegion

(***************************************************************************)
(* MirrorConfiguration.regions_config                                      *)
(***************************************************************************)
MaxConfigs == 1      \* regions_config calls in one behaviour

\* f'\n\n## {mirror_region.name}\n': two line ends, then the region line
HeaderLines(name) ==
    <<LineOther, LineOther, [kind |-> "header", text |-> <<Marker, name>>]>>

\* f'Server = {status.server_url}\n' for each status, in order
ServerLines(stati) ==
    [i \in 1..Len(stati) |-> [kind |-> "server", url |-> server_url(stati[i])]]

\* how the loop over self.mirror_regions can end from st, where st is
\* [mappings, raised, stati, config]; the speeds of the entries that are
\* probed on the way are chosen freely
RECURSIVE RegionsConfigRuns(_, _)
RegionsConfigRuns(st, regions) ==
    IF regions = <<>> \/ st.raised # "" THEN {st}
    ELSE LET name == Head(regions).name
             k == IndexOf(st.mappings, name)
         IN  IF k = 0 THEN {[st EXCEPT !.raised = "KeyError"]}
             ELSE UNION {
                 LET probed == Measure(st.mappings[k].entries, measured)
                     mappings == [st.mappings EXCEPT ![k].entries = probed]
                 IN  IF ~Comparable(probed)
                     THEN {[st EXCEPT !.mappings = mappings, !.raised = "TypeError"]}
                     ELSE RegionsConfigRuns(
                              [mappings |-> mappings,
                               raised |-> "",
                               stati |-> Append(st.stati, Sorted(probed)),
                               config |-> st.config \o HeaderLines(name)
                                             \o ServerLines(Sorted(probed))],
                              Tail(regions))
                 : measured \in [Unprobed(st.mappings[k].entries) -> SortSpeeds]}

\* config.regions_config(speed_sort) on a loaded handler
RegionsConfig ==
    /\ Returned
    /\ status_mappings # <<>>
    /\ Len(configTexts) < MaxConfigs
    /\ \E speed_sort \in BOOLEAN :
        \E end \in RegionsConfigRuns(
                    [mappings |-> status_mappings[1], raised |-> "",
                     stati |-> <<>>, config |-> <<>>],
                    config.mirror_regions) :
            /\ status_mappings' = <<end.mappings>>
            /\ configTexts' = Append(configTexts,
                    [speed_sort |-> speed_sort,
                     raised |-> end.raised,
                     stati |-> end.stati,
                     config |-> IF end.raised = "" THEN end.config ELSE <<>>])
    /\ UNCHANGED <<offline, pc, caller, attempt_nr, fetches, sleeps, localReads,
                   remoteResult, lastFeed, localFile, lastOutcome, loadedFrom, loads>>
    /\ UNCHANGED <<probeVars, configVars, reflectorVars, listVars, statusReads, flowVars>>

\* the regions an operator selected from an earlier listing, by name
SelectableNames == {"DE", "Worldwide", "RegionA"}
Selections ==
    {[i \in 1..Len(q) |-> ToRegion(q[i])] : q \in InjSeqs(SelectableNames, MaxRegions)}

\* the feed entries and file lines behind the handler's map
TextEntries == {e \in FeedEntries : e.url.host \in {"a", "c", "h"}}

RegionsConfigInit ==
    /\ \/ \E urls \in SeqsUpTo(TextEntries, MaxRegionList) : AfterRemoteLoad(urls)
       \/ \E lines \in SeqsUpTo(SortLines, MaxRegionList) : AfterLocalLoad(lines)
    /\ statusReads = <<>>
    /\ configTexts = <<>>
    /\ \E rs \in Selections : config = [DefaultConfig EXCEPT !.mirror_regions = rs]
    /\ document = <<>>
    /\ parsed = <<>>

(***************************************************************************)
(* configure_reflector                                                     *)
(***************************************************************************)
\* what the operator can type into an EditMenu
EnteredTexts == {<<"2", "4">>, <<" ", "7">>, <<"a", "b", "c">>, <<"1", ".", "5">>, <<>>}

Digits == {"0", "1", "2", "3", "4", "5", "6", "7", "8", "9"}
DigitValue(c) == CHOOSE d \in 0..9 : Digit(d) = c

RECURSIVE DecimalValue(_)
DecimalValue(digits) ==
    IF digits = <<>> THEN 0
    ELSE 10 * DecimalValue(SubSeq(digits, 1, Len(digits) - 1)) + DigitValue(digits[Len(digits)])

\* int(text): blanks around the number are dropped, a sign may lead, the
\* rest must be digits, at least one; <<>> stands for ValueError
ParseInt(text) ==
    LET t == Strip(text)
        signed == t # <<>> /\ Head(t) \in {"+", "-"}
        digits == IF signed THEN Tail(t) ELSE t
    IN  IF digits = <<>> \/ \E i \in 1..Len(digits) : digits[i] \notin Digits
        THEN <<>>
        ELSE IF signed /\ Head(t) = "-" THEN <<0 - DecimalValue(digits)>>
        ELSE <<DecimalValue(digits)>>

\* `try: preset.x = int(result.text()) except ValueError: pass`
IntOr(text, previous) == IF ParseInt(text) = <<>> THEN previous ELSE ParseInt(text)[1]

\* mutant: the prompts follow whatever was answered
ContinueFlow_always(preset) == TRUE

\* `if not preset.enabled: return preset`
ContinueFlow(preset) == preset.enabled

\* [region.name for region in available_regions if region.name != 'Worldwide']
AvailableCountries(mappings) ==
    LET names == [k \in 1..Len(mappings) |-> mappings[k].region]
        Country(n) == n # "Worldwide"
    IN  SelectSeq(names, Country)

\* the presets configure_reflector is called with: none, or a configuration
Presets == {<<>>} \cup {<<r>> : r \in ReflectorSamples}

FlowAt(position) == [flow EXCEPT !.pc = position]

FlowRest ==
    flow = [pc |-> "idle", preset |-> <<>>, before |-> <<>>, answer |-> "none",
            age_text |-> <<>>, latest_text |-> <<>>]

FlowInit ==
    \E p \in Presets :
        flow = [pc |-> "idle", preset |-> p, before |-> <<>>, answer |-> "none",
                age_text |-> <<>>, latest_text |-> <<>>]

FlowOnly == UNCHANGED <<probeVars, configVars, reflectorVars, listVars, sortVars>>

\* configure_reflector(preset) is entered and shows the first menu
CallConfigureReflector ==
    /\ flow.pc = "idle"
    /\ Returned
    /\ LET preset == IF flow.preset = <<>> THEN DefaultReflector ELSE flow.preset[1]
       IN  flow' = [flow EXCEPT !.pc = "enabled", !.preset = <<preset>>,
                                !.before = <<preset>>]
    /\ UNCHANGED loaderVars
    /\ FlowOnly

\* 'Use reflector for mirror selection' is left by Esc
SkipEnabled ==
    /\ flow.pc = "enabled"
    /\ flow' = [flow EXCEPT !.pc = "returned", !.answer = "skip"]
    /\ UNCHANGED loaderVars
    /\ FlowOnly

\* Yes or No is selected; after Yes the countries are loaded
SelectEnabled ==
    /\ flow.pc = "enabled"
    /\ \E yes \in BOOLEAN :
        LET preset == [flow.preset[1] EXCEPT !.enabled = yes]
            answered == [flow EXCEPT !.preset = <<preset>>,
                                     !.answer = IF yes THEN "yes" ELSE "no"]
        IN  IF ContinueFlow(preset)
            THEN /\ flow' = [answered EXCEPT !.pc = "loading"]
                 /\ StartLoad("configure_reflector")
            ELSE /\ flow' = [answered EXCEPT !.pc = "returned"]
                 /\ UNCHANGED loaderVars
    /\ FlowOnly

\* load_mirrors() raised: the exception leaves configure_reflector
LoadRaised ==
    /\ flow.pc = "loading"
    /\ pc = "raised"
    /\ flow' = FlowAt("raised")
    /\ UNCHANGED loaderVars
    /\ FlowOnly

\* load_mirrors() returned: the countries menu is shown if there are any
LoadReturned ==
    /\ flow.pc = "loading"
    /\ pc = "done"
    /\ flow' = FlowAt(IF AvailableCountries(status_mappings[1]) # <<>>
                      THEN "countries" ELSE "protocols")
    /\ UNCHANGED loaderVars
    /\ FlowOnly

\* 'Select countries for reflector': Skip, Reset or a selection
AnswerCountries ==
    /\ flow.pc = "countries"
    /\ LET available == AvailableCountries(status_mappings[1])
       IN  \/ flow' = FlowAt("protocols")
           \/ flow' = [flow EXCEPT !.pc = "protocols", !.preset[1].countries = <<>>]
           \/ \E n \in 1..Len(available) :
                  flow' = [flow EXCEPT !.pc = "protocols",
                                       !.preset[1].countries = SubSeq(available, 1, n)]
    /\ UNCHANGED loaderVars
    /\ FlowOnly

\* 'Select protocols': Skip or a selection
AnswerProtocols ==
    /\ flow.pc = "protocols"
    /\ \/ flow' = FlowAt("age")
       \/ flow' = [flow EXCEPT !.pc = "age",
                               !.preset[1].protocols = <<Protocol("http"), Protocol("rsync")>>]
    /\ UNCHANGED loaderVars
    /\ FlowOnly

\* 'Age limit (hours)': Skip or a text
AnswerAge ==
    /\ flow.pc = "age"
    /\ \/ flow' = FlowAt("latest")
       \/ \E text \in EnteredTexts :
              flow' = [flow EXCEPT !.pc = "latest", !.age_text = <<text>>,
                                   !.preset[1].age = IntOr(text, @)]
    /\ UNCHANGED loaderVars
    /\ FlowOnly

\* 'Number of latest mirrors': Skip or a text
AnswerLatest ==
    /\ flow.pc = "latest"
    /\ \/ flow' = FlowAt("sort")
       \/ \E text \in EnteredTexts :
              flow' = [flow EXCEPT !.pc = "sort", !.latest_text = <<text>>,
                                   !.preset[1].latest = IntOr(text, @)]
    /\ UNCHANGED loaderVars
    /\ FlowOnly

\* 'Select sort order': Skip or a selection; the preset is returned
AnswerSortOrder ==
    /\ flow.pc = "sort"
    /\ \/ flow' = FlowAt("returned")
       \/ flow' = [flow EXCEPT !.pc = "returned",
                               !.preset[1].sort_order = SortOrder("score")]
    /\ UNCHANGED loaderVars
    /\ FlowOnly

(***************************************************************************)
(* Specifications                                                          *)
(***************************************************************************)
LoaderRest ==
    /\ offline = FALSE
    /\ status_mappings = <<>>
    /\ pc = "idle"
    /\ caller = "none"
    /\ attempt_nr = 0
    /\ fetches = 0
    /\ sleeps = <<>>
    /\ localReads = 0
    /\ remoteResult = <<>>
    /\ lastFeed = <<>>
    /\ localFile = <<>>
    /\ lastOutcome = "none"
    /\ loadedFrom = "none"
    /\ loads = 0

ListRest ==
    /\ repo_data = <<>>
    /\ server_data = <<>>

SortRest == statusReads = <<>> /\ configTexts = <<>>

InitLoader == LoaderInit /\ ProbeInit /\ ConfigRest /\ ReflectorInit /\ FlowRest /\ ListRest /\ SortRest
SpecLoader == InitLoader /\ [][LoaderNext]_vars

InitProbe == LoaderRest /\ ProbeInit /\ ConfigRest /\ ReflectorInit /\ FlowRest /\ ListRest /\ SortRest
SpecProbe == InitProbe /\ [][ProbeNext]_vars

SpecLatency == InitProbe /\ [][LatencyNext]_vars

InitConfig == LoaderRest /\ ProbeInit /\ ConfigInit /\ ReflectorInit /\ FlowRest /\ ListRest /\ SortRest
SpecConfig == InitConfig /\ [][ConfigNext]_vars

InitPersisted == LoaderRest /\ ProbeInit /\ PersistedInit /\ ReflectorInit /\ FlowRest /\ ListRest /\ SortRest
SpecPersisted == InitPersisted /\ [][ParseArgs]_vars

InitReflector ==
    /\ LoaderRest /\ ProbeInit /\ ReflectorInit /\ FlowRest /\ ListRest /\ SortRest
    /\ config \in {[DefaultConfig EXCEPT !.reflector = r] : r \in ReflectorConfigs}
    /\ document = <<>>
    /\ parsed = <<>>
SpecReflector == InitReflector /\ [][ReflectorNext]_vars

\* the handler in offline mode, where every load is a parse of the local file
InitLocalFile ==
    /\ LoaderInit /\ offline
    /\ ProbeInit /\ ConfigRest /\ ReflectorInit /\ FlowRest /\ ListRest /\ SortRest
LocalFileNext ==
    \/ CallGetMirrorRegions
    \/ LocalLoadAnyFile
    \/ LocalLoadFail
SpecLocalFile == InitLocalFile /\ [][LocalFileNext]_vars

InitSort == SortInit /\ ProbeInit /\ ConfigRest /\ ReflectorInit /\ FlowRest /\ ListRest
SpecSort == InitSort /\ [][SortNext]_vars

\* the loader followed from its construction through loads, listings and
\* reads of regions; the feed holds one entry of 'DE' and one without country
LazyOutcomes ==
    {[kind |-> "doc", version |-> 3, urls |-> u] :
        u \in {<<Entry(Https, "a", TRUE, <<1>>, <<15>>, "DE"),
                 Entry(Https, "h", TRUE, <<1>>, <<0>>, "")>>}}

LazyNext ==
    \/ CallLoadMirrors
    \/ CallGetMirrorRegions
    \/ RemoteOk(LazyOutcomes)
    \/ RemoteAttemptFail
    \/ LocalLoadOk
    \/ LocalLoadFail
    \/ GetStatusByRegion

InitLazy == InitLoader
SpecLazy == InitLazy /\ [][LazyNext]_vars

\* one call of configure_reflector on a fresh handler, from any preset
ConfigureNext ==
    \/ CallConfigureReflector
    \/ SkipEnabled
    \/ SelectEnabled
    \/ RemoteOk(LazyOutcomes)
    \/ RemoteAttemptFail
    \/ LocalLoadOk
    \/ LocalLoadFail
    \/ LoadRaised
    \/ LoadReturned
    \/ AnswerCountries
    \/ AnswerProtocols
    \/ AnswerAge
    \/ AnswerLatest
    \/ AnswerSortOrder

InitConfigure ==
    LoaderInit /\ ProbeInit /\ ConfigRest /\ ReflectorInit /\ FlowInit /\ ListRest /\ SortRest
SpecConfigure == InitConfigure /\ [][ConfigureNext]_vars

InitRegionsConfig == RegionsConfigInit /\ ProbeInit /\ ReflectorInit /\ FlowRest /\ ListRest
SpecRegionsConfig == InitRegionsConfig /\ [][RegionsConfig]_vars

InitLists == LoaderRest /\ ProbeInit /\ ConfigRest /\ ReflectorInit /\ FlowRest /\ ListInit /\ SortRest
SpecLists == InitLists /\ [][ListNext]_vars

Init == InitLoader
Next == LoaderNext
Spec == SpecLoader

(***************************************************************************)
(* Claims                                                                  *)
(***************************************************************************)
Last(q) == q[Len(q)]

\* C1: in online mode load_mirrors reads the local file only after
\* load_remote_mirrors has returned False, which takes three failed
\* fetches; it then reads it exactly once; after a fetch that succeeded
\* the local file is not read.
C1_RemoteFirstThenLocalOnce ==
    ~offline =>
        /\ localReads <= 1
        /\ (pc = "local" \/ localReads > 0) =>
               (remoteResult = <<FALSE>> /\ fetches = 3)
        /\ (remoteResult = <<TRUE>>) => (localReads = 0 /\ pc # "local")
        /\ (remoteResult = <<FALSE>> /\ pc \in {"done", "raised"}) => localReads = 1

C1_Witness ==
    /\ ~offline
    /\ pc = "done"
    /\ remoteResult = <<FALSE>>
    /\ fetches = 3
    /\ localReads = 1

\* C2: with the offline flag set no fetch is issued and load_remote_mirrors
\* is not entered, in any call; every load, also the one the first read of
\* the regions triggers, reads the local file once.
C2_OfflineLocalOnly ==
    offline =>
        /\ fetches = 0
        /\ sleeps = <<>>
        /\ remoteResult = <<>>
        /\ pc # "remote"
        /\ (pc \in {"done", "raised"} /\ (caller = "load_mirrors" \/ loads = 1)) =>
               localReads = 1

C2_Witness ==
    /\ offline
    /\ loads >= 2
    /\ caller = "load_mirrors"
    /\ pc = "done"
    /\ localReads = 1

\* C3: load_remote_mirrors fetches at most three times, the k-th failed
\* fetch is followed by a wait of k seconds, a fetch that succeeds is the
\* last one, False is returned only after three failed fetches and three
\* waits, and no exception leaves it (load_mirrors raises only from the
\* local file).
C3_RetryBudgetAndBackoff ==
    /\ fetches <= 3
    /\ \A k \in 1..Len(sleeps) : sleeps[k] = k
    /\ (remoteResult = <<>>) => fetches = Len(sleeps)
    /\ (remoteResult = <<TRUE>>) => fetches = Len(sleeps) + 1
    /\ (remoteResult = <<FALSE>>) => (fetches = 3 /\ sleeps = <<1, 2, 3>>)
    /\ (pc = "raised") => localReads = 1

C3_Witness ==
    /\ remoteResult = <<TRUE>>
    /\ fetches = 3
    /\ sleeps = <<1, 2>>

Surfaced(url) ==
    \E k \in 1..Len(status_mappings[1]) :
        \E i \in 1..Len(status_mappings[1][k].entries) :
            status_mappings[1][k].entries[i].url = url

\* C4: after a remote load of a version-3 document the region map holds no
\* entry of the document that is inactive, has no last_sync, or whose score
\* is absent or at least 100 once rounded to the nearest integer, and it
\* holds every other entry whose scheme is http or https.
C4_FeedFilterRounded ==
    (pc = "done" /\ remoteResult = <<TRUE>>) =>
        \A i \in 1..Len(lastFeed[1]) :
            LET e == lastFeed[1][i]
                bad == \/ e.active = FALSE
                       \/ e.last_sync = <<>>
                       \/ e.score = <<>>
                       \/ Round(e.score[1]) >= 100 * ScoreScale
            IN  /\ bad => ~Surfaced(e.url)
                /\ (~bad /\ e.url.scheme \in {Http, Https}) => Surfaced(e.url)

\* C5: parse_args(c.json()) does not raise and yields the regions, custom
\* servers, custom repositories, optional repositories and reflector
\* settings of c.
C5_JsonParseRoundTrip ==
    (/\ parsed # <<>>
     /\ parsed[1].args = MirrorConfigurationJson(config)
     /\ parsed[1].backwards_compatible_repo = <<>>) =>
        /\ ~parsed[1].out.raised
        /\ parsed[1].out.config = <<config>>

Transient(k) == k \in {"IncompleteRead", "ConnectionResetError"}
Permanent(k) == k \in {"URLError", "Exception"}
AllTransient(q) == \A i \in 1..Len(q) : Transient(q[i])

\* C6: a read of speed on an unprobed entry makes between one and three
\* download attempts; as long as every attempt ended in a transient error
\* speed is unset and each error has used one attempt; after three of them
\* the read ends with speed 0.
C6_ProbeAttemptsAndFinalZero ==
    /\ downloads <= 3
    /\ downloads = Len(outcomes)
    /\ (spc = "done" /\ probing) => (downloads >= 1 /\ entries[reading]._speed # <<>>)
    /\ (spc = "loop" /\ AllTransient(outcomes)) =>
           (entries[reading]._speed = <<>> /\ retry = Len(outcomes))
    /\ (spc = "done" /\ probing /\ AllTransient(outcomes)) =>
           /\ Len(outcomes) = 3
           /\ entries[reading]._speed = <<0>>
           /\ Last(returned[reading]) = <<0>>

C6_Witness ==
    /\ spc = "done"
    /\ probing
    /\ outcomes = <<"IncompleteRead", "ConnectionResetError", "IncompleteRead">>
    /\ entries[reading]._speed = <<0>>

\* C7: an attempt that ends in a permanent error (URLError or any other
\* exception than the two retried ones) is the last attempt of the read
\* and leaves speed at 0.
C7_PermanentErrorStops ==
    \A i \in 1..Len(outcomes) :
        Permanent(outcomes[i]) =>
            /\ i = Len(outcomes)
            /\ entries[reading]._speed = <<0>>
            /\ (spc = "done") => Last(returned[reading]) = <<0>>

C7_Witness ==
    /\ spc = "done"
    /\ outcomes = <<"URLError">>
    /\ downloads = 1
    /\ entries[reading]._speed = <<0>>

\* C8: all reads of speed on one entry return the same value, the value
\* stored on the entry, and from the second read on a read makes no
\* download attempt.
C8_SpeedMemoized ==
    /\ \A e \in EntryIds :
        /\ \A i, j \in 1..Len(returned[e]) : returned[e][i] = returned[e][j]
        /\ (Len(returned[e]) >= 1) =>
               (returned[e][1] # <<>> /\ entries[e]._speed = returned[e][1])
    /\ (spc = "loop") => returned[reading] = <<>>
    /\ (spc = "done" /\ Len(returned[reading]) >= 2) => (downloads = 0 /\ ~probing)

C8_Witness ==
    /\ spc = "done"
    /\ Len(returned[reading]) = 2
    /\ returned[reading][1] = <<0>>
    /\ returned[reading][2] = <<0>>
    /\ downloads = 0

C10_DisabledIsNoOp ==
    [][(calls' = calls + 1 /\ ~config.reflector.enabled) =>
           /\ rpc' = "returned"
           /\ result' = <<FALSE>>
           /\ commands' = <<>>
           /\ config' = config]_vars

C10_Witness ==
    /\ calls >= 1
    /\ ~config.reflector.enabled
    /\ rpc = "returned"
    /\ result = <<FALSE>>
    /\ commands = <<>>


\* the entries behind the urls that get_mirror_regions lists for region k
Listed(k) ==
    {e \in {status_mappings[1][k].entries[i] : i \in 1..Len(status_mappings[1][k].entries)} :
        \E j \in 1..Len(get_mirror_regions(status_mappings[1])[k].urls) :
            get_mirror_regions(status_mappings[1])[k].urls[j] = server_url(e)}

AllListed == UNION {Listed(k) : k \in 1..Len(status_mappings[1])}

\* C11 as stated: after any loads from either source no entry that the
\* regions list is inactive, lacks last_sync, or has a score of at least 100.
C11_NoBadEntrySurfaced ==
    (status_mappings # <<>>) =>
        \A e \in AllListed :
            /\ e.active
            /\ e.last_sync # <<>>
            /\ ~(e.score # <<>> /\ e.score[1] >= 100 * ScoreScale)

\* C11 amended: no listed entry is inactive or has a score of at least 100;
\* after a remote load every listed entry has last_sync and a score; the
\* entries of the local file are listed although they have neither.
C11_NoBadEntryPerSource ==
    (status_mappings # <<>>) =>
        \A e \in AllListed :
            /\ e.active
            /\ ~(e.score # <<>> /\ e.score[1] >= 100 * ScoreScale)
            /\ (loadedFrom = "remote") => (e.last_sync # <<>> /\ e.score # <<>>)
            /\ (loadedFrom = "local") => (e.last_sync = <<>> /\ e.score = <<>>)

C11_Witness ==
    /\ loads = 2
    /\ pc = "done"
    /\ loadedFrom = "local"
    /\ status_mappings # <<>>
    /\ \E e \in AllListed : e.last_sync = <<>> /\ e.url.host = "a"

\* C12: the list operations keep the keys unique: after any adds, changes
\* and deletes on lists that started with pairwise distinct keys, no two
\* custom repositories share a name and no two custom servers share a url.
C12_KeysStayUnique ==
    /\ \A i, j \in 1..Len(repo_data) : i # j => repo_data[i].name # repo_data[j].name
    /\ \A i, j \in 1..Len(server_data) : i # j => server_data[i].url # server_data[j].url

\* the permutations of 1..n
Perms(n) == {f \in [1..n -> 1..n] : \A i, j \in 1..n : i # j => f[i] # f[j]}

SameKey(a, b) == a.score = b.score /\ a._speed = b._speed

\* a comes before b in the order of the pair (score, speed), or ties with it
NotAfter(a, b) ==
    \/ a.score # <<>> /\ b.score # <<>> /\ a.score[1] < b.score[1]
    \/ a.score = b.score /\ a._speed[1] <= b._speed[1]

\* C13: get_status_by_region returns the entries of the region, each once,
\* in ascending order of (score, speed); entries with the same pair keep
\* the order they were loaded in; speed_sort makes no difference: reads of
\* one region return the same list whatever the flag.
C13_SortedStableFlagIgnored ==
    /\ \A r \in 1..Len(statusReads) :
        LET read == statusReads[r]
            n == Len(read.list)
        IN  (read.raised = "") =>
                /\ Len(read.out) = n
                /\ \A i, j \in 1..n : i < j => NotAfter(read.out[i], read.out[j])
                /\ \E f \in Perms(n) :
                       /\ \A i \in 1..n : read.out[i] = read.list[f[i]]
                       /\ \A i, j \in 1..n :
                              (i < j /\ SameKey(read.out[i], read.out[j])) => f[i] < f[j]
    /\ \A r, q \in 1..Len(statusReads) :
           (statusReads[r].region = statusReads[q].region) =>
               (statusReads[r].out = statusReads[q].out)

C13_Witness ==
    /\ Len(statusReads) = 2
    /\ statusReads[1].region = statusReads[2].region
    /\ statusReads[1].speed_sort # statusReads[2].speed_sort
    /\ Len(statusReads[1].out) = 3
    /\ statusReads[1].out # statusReads[1].list
    /\ statusReads[1].out[2].url # statusReads[1].out[3].url
    /\ SameKey(statusReads[1].out[2], statusReads[1].out[3])
    /\ statusReads[2].out = statusReads[1].out

\* the argument list of the last run without the trailing --save <path>
Args == SubSeq(cmd_args[1], 1, Len(cmd_args[1]) - 2)

\* the positions of a flag in the argument list
At(flag) == {i \in 1..Len(Args) : Args[i] = flag}

\* the decimal text of the ages and counts that occur
Decimal(n) == CASE n = 5 -> "5" [] n = 6 -> "6" [] n = 12 -> "12" [] n = 20 -> "20"

\* the comma-separated text of a list of at most two names
Csv(names) == IF Len(names) = 1 THEN names[1] ELSE names[1] \o "," \o names[2]

FollowedBy(flag, value) == \A i \in At(flag) : i < Len(Args) /\ Args[i + 1] = value

Before(f, g) == \A i \in At(f), j \in At(g) : i < j

\* C14: the argument list starts with the tool name; --age, --latest and
\* --sort are always there, each once and followed by its value;
\* --country (followed by the countries joined by commas) is there iff
\* there are countries, --protocol (followed by the joined protocol names)
\* iff there are protocols, --verbose iff verbose is set; the order is
\* verbose, country, protocol, age, latest, sort, and nothing else is in
\* the list.
C14_CommandArgs ==
    (cmd_args # <<>>) =>
        LET r == config.reflector
            names == [i \in 1..Len(r.protocols) |-> r.protocols[i].value]
        IN  /\ Args[1] = "reflector"
            /\ Cardinality(At("--age")) = 1 /\ FollowedBy("--age", Decimal(r.age))
            /\ Cardinality(At("--latest")) = 1 /\ FollowedBy("--latest", Decimal(r.latest))
            /\ Cardinality(At("--sort")) = 1 /\ FollowedBy("--sort", r.sort_order.value)
            /\ Cardinality(At("--country")) = (IF r.countries # <<>> THEN 1 ELSE 0)
            /\ (r.countries # <<>>) => FollowedBy("--country", Csv(r.countries))
            /\ Cardinality(At("--protocol")) = (IF r.protocols # <<>> THEN 1 ELSE 0)
            /\ (r.protocols # <<>>) => FollowedBy("--protocol", Csv(names))
            /\ Cardinality(At("--verbose")) = (IF r.verbose THEN 1 ELSE 0)
            /\ Before("--verbose", "--country") /\ Before("--verbose", "--protocol")
            /\ Before("--verbose", "--age") /\ Before("--country", "--protocol")
            /\ Before("--country", "--age") /\ Before("--protocol", "--age")
            /\ Before("--age", "--latest") /\ Before("--latest", "--sort")
            /\ Len(Args) = 1 + Cardinality(At("--verbose")) + 2 * Cardinality(At("--country"))
                             + 2 * Cardinality(At("--protocol")) + 6

C14_Witness ==
    /\ cmd_args # <<>>
    /\ rpc = "returned"
    /\ Args = <<"reflector", "--verbose", "--country", "Brazil,Chile",
                "--protocol", "http,https", "--age", "6", "--latest", "5",
                "--sort", "score">>

\* the repositories a list of {name, url, sign_check, sign_option} stands for
AsRepositories(dicts) ==
    [i \in 1..Len(dicts) |->
        [type |-> "CustomRepository", name |-> dicts[i].name, url |-> dicts[i].url,
         sign_check |-> [enum |-> "SignCheck", value |-> dicts[i].sign_check],
         sign_option |-> [enum |-> "SignOption", value |-> dicts[i].sign_option]]]

\* C15: a repository list under custom_mirrors alone gives the custom
\* repositories the same list gives under custom_repositories; with both
\* keys in the document the result is the list of custom_repositories.
C15_LegacyKeyAlias ==
    (parsed # <<>> /\ parsed[1].args \in PersistedDocs) =>
        LET args == parsed[1].args
            out == parsed[1].out
        IN  /\ ~out.raised
            /\ (args.custom_repositories # <<>>) =>
                   out.config[1].custom_repositories = AsRepositories(args.custom_repositories[1])
            /\ (args.custom_repositories = <<>> /\ args.custom_mirrors # <<>>) =>
                   out.config[1].custom_repositories = AsRepositories(args.custom_mirrors[1])

C15_Witness ==
    /\ parsed # <<>>
    /\ parsed[1].args.custom_mirrors # <<>>
    /\ parsed[1].args.custom_repositories # <<>>
    /\ Len(parsed[1].args.custom_mirrors[1]) = 1
    /\ Len(parsed[1].args.custom_repositories[1]) = 1
    /\ parsed[1].args.custom_mirrors[1][1].name = "own"
    /\ ~parsed[1].out.raised
    /\ Len(parsed[1].out.config[1].custom_repositories) = 1
    /\ parsed[1].out.config[1].custom_repositories[1].name = "extra"

\* how often x occurs in the list q
Count(x, q) == Cardinality({i \in 1..Len(q) : q[i] = x})

Identifiers(q) == [i \in 1..Len(q) |-> q[i].value]

DocOptional == Get(parsed[1].args.optional_repositories, <<>>)

\* C16 as stated: every supplied identifier and every identifier of the
\* document is in the resulting optional_repositories, and none is there
\* more than once, whatever the supplied list and the document repeat.
C16_MergeWithoutDuplicates ==
    (parsed # <<>> /\ ~parsed[1].out.raised) =>
        LET out == Identifiers(parsed[1].out.config[1].optional_repositories)
            supplied == Identifiers(parsed[1].backwards_compatible_repo)
        IN  /\ \A i \in 1..Len(supplied) : Count(supplied[i], out) >= 1
            /\ \A i \in 1..Len(DocOptional) : Count(DocOptional[i], out) >= 1
            /\ \A i \in 1..Len(out) : Count(out[i], out) = 1

\* C16 amended: the result is the document's list as it stands, followed
\* by the supplied identifiers that the document does not hold, each once;
\* so every supplied and every document identifier is present, and an
\* identifier occurs more than once only if the document repeats it.
C16_MergeAddsNoDuplicate ==
    (parsed # <<>> /\ ~parsed[1].out.raised) =>
        LET out == Identifiers(parsed[1].out.config[1].optional_repositories)
            supplied == Identifiers(parsed[1].backwards_compatible_repo)
            n == Len(DocOptional)
        IN  /\ Len(out) >= n
            /\ SubSeq(out, 1, n) = DocOptional
            /\ \A i \in 1..Len(supplied) : Count(supplied[i], out) >= 1
            /\ \A i \in (n + 1)..Len(out) :
                   /\ Count(out[i], out) = 1
                   /\ Count(out[i], supplied) >= 1
            /\ \A i \in 1..Len(out) : Count(out[i], out) > 1 => Count(out[i], DocOptional) > 1

C16_Witness ==
    /\ parsed # <<>>
    /\ ~parsed[1].out.raised
    /\ DocOptional = <<"multilib", "multilib">>
    /\ Identifiers(parsed[1].backwards_compatible_repo) = <<"testing", "testing">>
    /\ Identifiers(parsed[1].out.config[1].optional_repositories)
           = <<"multilib", "multilib", "testing">>

\* the lines of the file that was read
Lines == localFile[1].lines

\* the trimmed text after the marker of a region line
AfterMarker(line) == Join(Strip(Tail(line.text)))

Headers(i) == {j \in 1..i : Lines[j].kind = "header"}

\* the region that is selected when line i is met
SelectedAt(i) ==
    IF Headers(i) = {} THEN "Local"
    ELSE AfterMarker(Lines[CHOOSE j \in Headers(i) : \A h \in Headers(i) : h <= j])

\* the Server lines of a region, in file order
ServersOf(region) ==
    LET Mine(i) == Lines[i].kind = "server" /\ SelectedAt(i) = region
    IN  SelectSeq([i \in 1..Len(Lines) |-> i], Mine)

\* url is the line's url without a trailing $repo/os/$arch
Trimmed(url, lineUrl) ==
    /\ url.scheme = lineUrl.scheme
    /\ url.host = lineUrl.host
    /\ IF \E q \in {SubSeq(lineUrl.path, 1, n) : n \in 0..Len(lineUrl.path)} :
              q \o RepoSuffix = lineUrl.path
       THEN url.path \o RepoSuffix = lineUrl.path
       ELSE url.path = lineUrl.path

\* C17: after a parse of the local file the regions are the trimmed texts
\* after the marker of the '## ' lines (and 'Local' when a Server line
\* comes before any of them); each region holds one entry per Server line
\* met while it was selected, in file order, with the line's url less a
\* trailing $repo/os/$arch; two headers each followed by one Server line
\* give two regions of one entry.
C17_LocalFileGrammar ==
    (pc = "done" /\ localFile # <<>> /\ localFile[1].opened) =>
        LET m == status_mappings[1]
        IN  /\ RegionKeys(m) =
                   {AfterMarker(Lines[j]) : j \in Headers(Len(Lines))}
                   \cup {SelectedAt(i) : i \in {j \in 1..Len(Lines) : Lines[j].kind = "server"}}
            /\ \A k, l \in 1..Len(m) : k # l => m[k].region # m[l].region
            /\ \A k \in 1..Len(m) :
                   LET from == ServersOf(m[k].region)
                   IN  /\ Len(m[k].entries) = Len(from)
                       /\ \A i \in 1..Len(from) :
                              Trimmed(m[k].entries[i].url, Lines[from[i]].url)
            /\ (Lines = <<LineRegionA, LineServerA, LineRegionB, LineServerB>>) =>
                   /\ Len(m) = 2
                   /\ Len(m[1].entries) = 1
                   /\ Len(m[2].entries) = 1

\* C18: when the local file cannot be opened the error leaves
\* load_local_mirrors and load_mirrors: the call ends raising, offline
\* without any fetch, online only after the remote load returned False
\* from three failed fetches; the file was tried once and nothing else is
\* tried after it.
C18_UnreadableFileRaises ==
    (localFile # <<>> /\ ~localFile[1].opened) =>
        /\ pc = "raised"
        /\ localReads = 1
        /\ offline => (fetches = 0 /\ remoteResult = <<>>)
        /\ ~offline => (fetches = 3 /\ remoteResult = <<FALSE>> /\ sleeps = <<1, 2, 3>>)

C18_Witness ==
    /\ ~offline
    /\ localFile # <<>>
    /\ ~localFile[1].opened
    /\ pc = "raised"
    /\ fetches = 3
    /\ caller = "load_mirrors"

\* every entry of the loaded mapping
Loaded ==
    UNION {{status_mappings[1][k].entries[i] : i \in 1..Len(status_mappings[1][k].entries)} :
              k \in 1..Len(status_mappings[1])}

\* C19: after a remote load every entry of the region map has the scheme
\* http or https; an entry of the feed whose url only begins with "http"
\* and has another scheme is not in the map.
C19_OnlyHttpSchemes ==
    (loadedFrom = "remote") =>
        /\ \A e \in Loaded : e.url.scheme = Http \/ e.url.scheme = Https
        /\ (pc = "done" /\ remoteResult = <<TRUE>>) =>
               \A i \in 1..Len(lastFeed[1]) :
                   (/\ StartsWith(lastFeed[1][i].url.scheme, Http)
                    /\ lastFeed[1][i].url.scheme \notin {Http, Https}) =>
                       ~Surfaced(lastFeed[1][i].url)

\* the entry with this url is in the group with this key
InGroup(url, key) ==
    \E k \in 1..Len(status_mappings[1]) :
        /\ status_mappings[1][k].region = key
        /\ \E i \in 1..Len(status_mappings[1][k].entries) :
               status_mappings[1][k].entries[i].url = url

\* C20: after a remote load every entry of the group with key K has the
\* country K; a kept entry of the feed is in the group of its country,
\* letter case included, and in the group "Worldwide" if its country is
\* empty; no group has the empty key, no group is empty, no key occurs
\* twice, and the groups are in ascending order of their keys.
C20_GroupedByCountry ==
    (pc = "done" /\ remoteResult = <<TRUE>>) =>
        LET m == status_mappings[1]
        IN  /\ \A k \in 1..Len(m) :
                   /\ m[k].region # ""
                   /\ m[k].entries # <<>>
                   /\ \A i \in 1..Len(m[k].entries) : m[k].entries[i].country = m[k].region
            /\ \A i \in 1..Len(lastFeed[1]) :
                   LET e == lastFeed[1][i]
                   IN  Surfaced(e.url) =>
                           InGroup(e.url, IF e.country = "" THEN "Worldwide" ELSE e.country)
            /\ \A k, l \in 1..Len(m) : k < l => NameRank(m[k].region) < NameRank(m[l].region)

C20_Witness ==
    /\ pc = "done"
    /\ remoteResult = <<TRUE>>
    /\ Len(lastFeed[1]) = 2
    /\ lastFeed[1][1].country = ""
    /\ lastFeed[1][2].country = "DE"
    /\ Len(status_mappings[1]) = 2
    /\ status_mappings[1][1].region = "DE"
    /\ status_mappings[1][2].region = "Worldwide"


(***************************************************************************)
(* C21: a feed document that is malformed, or that declares a version      *)
(* other than 3, is one failed attempt of the retry loop, exactly like a   *)
(* network error: the step that meets it leaves the region map as it was,  *)
(* sleeps the backoff of that attempt, does not raise, and goes on to the  *)
(* next attempt while one remains (after the third, to the local file).    *)
(***************************************************************************)
C21_RejectedDocumentIsFailedAttempt ==
    [][(/\ fetches' = fetches + 1
        /\ lastOutcome' \in {"error", "malformed", "version"}) =>
           /\ status_mappings' = status_mappings
           /\ sleeps' = Append(sleeps, attempt_nr + 1)
           /\ attempt_nr' = attempt_nr + 1
           /\ pc' # "raised"
           /\ IF attempt_nr + 1 < 3
              THEN pc' = "remote" /\ remoteResult' = <<>>
              ELSE pc' = "local" /\ remoteResult' = <<FALSE>>]_vars

\* a document of another version was met on the second attempt of a load
\* over an already loaded map; the map is still there, the loop goes on
C21_Witness ==
    /\ lastOutcome = "version"
    /\ fetches = 2
    /\ sleeps = <<1, 2>>
    /\ pc = "remote"
    /\ status_mappings # <<>>
    /\ status_mappings[1] # <<>>

\* the same for a document that does not validate
C21_WitnessMalformed ==
    /\ lastOutcome = "malformed"
    /\ fetches = 3
    /\ pc = "local"
    /\ remoteResult = <<FALSE>>

\* every region of the map m holds an entry, and every entry of m is an
\* entry of the feed document
OnlyFromFeed(m, urls) ==
    \A k \in 1..Len(m) :
        /\ m[k].entries # <<>>
        /\ \A i \in 1..Len(m[k].entries) :
               \E j \in 1..Len(urls) :
                   /\ urls[j].url = m[k].entries[i].url
                   /\ m[k].region \in {urls[j].country, "Worldwide"}

\* every region of the map m is named by a region line of the file (or is
\* 'Local'), and every entry of m is a Server line of the file
OnlyFromFile(m, lines) ==
    \A k \in 1..Len(m) :
        /\ \/ m[k].region = "Local"
           \/ \E j \in 1..Len(lines) :
                  lines[j].kind = "header" /\ m[k].region = Last(lines[j].text)
        /\ \A i \in 1..Len(m[k].entries) :
               \E j \in 1..Len(lines) :
                   /\ lines[j].kind = "server"
                   /\ Trimmed(m[k].entries[i].url, lines[j].url)

(***************************************************************************)
(* C25: a step of a load that fails (a fetch or validation that raises, a  *)
(* local file that cannot be opened) leaves the region map exactly as it   *)
(* was, so a load made only of such steps does; the step of a load that    *)
(* succeeds assigns a map made of the new input alone: each of its regions *)
(* and entries is one of the document or file just read, whatever the      *)
(* previous map held.  No other step touches the map.                      *)
(***************************************************************************)
C25_FailedLoadKeepsMap ==
    [][IF fetches' = fetches + 1 /\ lastOutcome' = "ok"
       THEN /\ status_mappings' # <<>>
            /\ OnlyFromFeed(status_mappings'[1], lastFeed'[1])
       ELSE IF localReads' = localReads + 1 /\ localFile'[1].opened
       THEN /\ status_mappings' # <<>>
            /\ OnlyFromFile(status_mappings'[1], localFile'[1].lines)
       ELSE status_mappings' = status_mappings]_vars

\* a second load ended raising after three failed fetches and an
\* unreadable file, and the map of the first load is still there
C25_Witness ==
    /\ loads = 2
    /\ pc = "raised"
    /\ fetches = 3
    /\ localFile = <<[opened |-> FALSE, lines |-> <<>>]>>
    /\ loadedFrom = "remote"
    /\ status_mappings # <<>>
    /\ status_mappings[1] # <<>>

(***************************************************************************)
(* C23: latency is probed at most once per entry: an entry that was read   *)
(* has been pinged exactly once, by its first read; a timeout is stored    *)
(* and returned as -1; every read, the later ones after a -1 included,     *)
(* returned the value the one ping gave.                                   *)
(***************************************************************************)
C23_LatencyProbedOnce ==
    \A e \in EntryIds :
        /\ latency[e].pings <= 1
        /\ latency[e].pings = (IF latency[e].reads = <<>> THEN 0 ELSE 1)
        /\ \A i \in 1..Len(latency[e].reads) :
               /\ latency[e].reads[i] # <<>>
               /\ latency[e].reads[i] = latency[e].reads[1]
               /\ latency[e].reads[i][1] \in PingResults
        /\ latency[e].reads # <<>> => latency[e]._latency = latency[e].reads[1]

\* an entry whose ping timed out was read twice: one ping, twice -1
C23_Witness ==
    \E e \in EntryIds :
        /\ latency[e].reads = <<(<<0 - 1>>), (<<0 - 1>>)>>
        /\ latency[e].pings = 1

\* the invocation at position i returned without an exception
Passed(i) == cmd_outcomes[i] # "raise"

(***************************************************************************)
(* C24: in a run of the reflector flow the presence check comes first;     *)
(* the install is attempted at most once, as the second command and only   *)
(* after the presence check failed; the ranking utility is invoked only    *)
(* right after a presence check that succeeded or right after an install   *)
(* that succeeded (the presence check having failed); once the install     *)
(* has failed the utility is not invoked and the run has returned false.   *)
(* A command succeeds when SysCommand returns without an exception.        *)
(***************************************************************************)
C24_ReflectorOrdering ==
    /\ Len(cmd_outcomes) = Len(commands)
    /\ \A i \in 1..Len(commands) :
        /\ commands[i] = "which" => i = 1
        /\ commands[i] = "pacman" =>
               i = 2 /\ commands[1] = "which" /\ ~Passed(1)
        /\ commands[i] = "reflector" =>
               \/ i = 2 /\ commands[1] = "which" /\ Passed(1)
               \/ /\ i = 3
                  /\ commands[1] = "which" /\ ~Passed(1)
                  /\ commands[2] = "pacman" /\ Passed(2)
    /\ \A i \in 1..Len(commands) :
        (commands[i] = "pacman" /\ ~Passed(i)) =>
            /\ \A j \in 1..Len(commands) : commands[j] # "reflector"
            /\ rpc = "returned"
            /\ result = <<FALSE>>

\* the check failed, the install succeeded, the utility was invoked
C24_Witness ==
    /\ commands = <<"which", "pacman", "reflector">>
    /\ cmd_outcomes[1] = "raise"
    /\ cmd_outcomes[2] = "exit0"
    /\ rpc = "returned"

\* the check failed and so did the install: the run is over, result false
C24_WitnessInstallFailed ==
    /\ commands = <<"which", "pacman">>
    /\ cmd_outcomes = <<"raise", "raise">>
    /\ rpc = "returned"
    /\ result = <<FALSE>>

\* the entries the loaded map holds for a region name, none if it has none
EntriesOf(name) ==
    LET m == status_mappings[1]
    IN  IF \E k \in 1..Len(m) : m[k].region = name
        THEN m[CHOOSE k \in 1..Len(m) : m[k].region = name].entries
        ELSE <<>>

\* out holds the elements of list, each once, in ascending (score, speed)
\* order
SortedCopy(out, list) ==
    /\ Len(out) = Len(list)
    /\ \A i, j \in 1..Len(out) : i < j => NotAfter(out[i], out[j])
    /\ \E f \in Perms(Len(out)) : \A i \in 1..Len(out) : out[i] = list[f[i]]

\* the lines of a text that are not empty
Written(lines) ==
    LET Holds(l) == l.kind # "other"
    IN  SelectSeq(lines, Holds)

\* the region line of `name` and one Server line per entry, server_url each
RegionBlock(name, stati) ==
    <<[kind |-> "header", text |-> <<Marker, name>>]>>
    \o [j \in 1..Len(stati) |->
           [kind |-> "server",
            url |-> [stati[j].url EXCEPT !.path = @ \o <<"$repo", "os", "$arch">>]]]

RECURSIVE Blocks(_, _)
Blocks(regions, stati) ==
    IF regions = <<>> THEN <<>>
    ELSE RegionBlock(Head(regions).name, Head(stati))
         \o Blocks(Tail(regions), Tail(stati))

(***************************************************************************)
(* C22: every regions_config call returns a text; its written lines are,   *)
(* for each selected region in selection order, the region line of that    *)
(* region followed by one 'Server = <server_url>' line per entry the map   *)
(* holds for it, in ascending (score, speed) order.  This is so for every  *)
(* selected region, also for one whose name is no key of the map (it has   *)
(* no entries, so its block is the region line alone).                     *)
(***************************************************************************)
C22_RegionsConfigText ==
    \A c \in 1..Len(configTexts) :
        LET call == configTexts[c]
            selected == config.mirror_regions
        IN  /\ call.raised = ""
            /\ Len(call.stati) = Len(selected)
            /\ \A i \in 1..Len(selected) :
                   SortedCopy(call.stati[i], EntriesOf(selected[i].name))
            /\ Written(call.config) = Blocks(selected, call.stati)

\* the same for the calls whose selected regions are all keys of the map
C22_TextForKnownRegions ==
    \A c \in 1..Len(configTexts) :
        LET call == configTexts[c]
            selected == config.mirror_regions
        IN  (\A i \in 1..Len(selected) :
                 selected[i].name \in RegionKeys(status_mappings[1])) =>
                /\ call.raised = ""
                /\ Len(call.stati) = Len(selected)
                /\ \A i \in 1..Len(selected) :
                       SortedCopy(call.stati[i], EntriesOf(selected[i].name))
                /\ Written(call.config) = Blocks(selected, call.stati)

\* two selected regions of the map, one with two entries that the sort
\* had to swap
C22_KnownRegionsWitness ==
    /\ Len(configTexts) = 1
    /\ configTexts[1].raised = ""
    /\ Len(config.mirror_regions) = 2
    /\ Len(configTexts[1].stati[1]) = 2
    /\ configTexts[1].stati[1] # EntriesOf(config.mirror_regions[1].name)
    /\ Len(configTexts[1].stati[2]) = 1

\* region 'DE', selected when the map came from the feed, is read back
\* after a load from the local file, whose only region is 'RegionA'
C22_UnknownRegion ==
    /\ loadedFrom = "local"
    /\ RegionKeys(status_mappings[1]) = {"RegionA"}
    /\ Len(config.mirror_regions) = 1
    /\ config.mirror_regions[1].name = "DE"
    /\ Len(configTexts) = 1
    /\ configTexts[1].raised = "KeyError"

\* no entry of the map holds a speed
AllUnprobed(mappings) ==
    \A k \in 1..Len(mappings) :
        \A i \in 1..Len(mappings[k].entries) : mappings[k].entries[i]._speed = <<>>

\* the entry `after` is the entry `before` with a speed measured if it had
\* none, and is `before` itself if it had one
ProbedIfNeeded(before, after) ==
    /\ after._speed # <<>>
    /\ [after EXCEPT !._speed = <<>>] = [before EXCEPT !._speed = <<>>]
    /\ before._speed # <<>> => after = before

(***************************************************************************)
(* C26: probes are lazy and per entry.  A step of load_mirrors or of       *)
(* get_mirror_regions probes nothing: it leaves the map with the speeds    *)
(* it held, or assigns a map none of whose entries holds a speed.  A       *)
(* get_status_by_region(name) call leaves every entry of region `name`     *)
(* with a speed, measuring those that had none and keeping the value of    *)
(* those that had one, and leaves the entries of every other region as     *)
(* they were.  No step reads latency.                                      *)
(***************************************************************************)
C26_ProbesLazyPerRegion ==
    [][/\ latency' = latency
       /\ IF statusReads' # statusReads
          THEN LET name == Last(statusReads').region
                   old == status_mappings[1]
                   new == status_mappings'[1]
               IN  /\ Len(new) = Len(old)
                   /\ \A k \in 1..Len(old) :
                       /\ new[k].region = old[k].region
                       /\ IF old[k].region = name
                          THEN /\ Len(new[k].entries) = Len(old[k].entries)
                               /\ \A i \in 1..Len(old[k].entries) :
                                      ProbedIfNeeded(old[k].entries[i], new[k].entries[i])
                          ELSE new[k] = old[k]
          ELSE \/ status_mappings' = status_mappings
               \/ status_mappings' # <<>> /\ AllUnprobed(status_mappings'[1])]_vars

\* a map of two regions was loaded and listed, then one region was read:
\* its entry holds a speed, the entry of the other region none
C26_Witness ==
    /\ Len(statusReads) = 1
    /\ Len(status_mappings[1]) = 2
    /\ statusReads[1].region = status_mappings[1][1].region
    /\ status_mappings[1][1].entries # <<>>
    /\ status_mappings[1][1].entries[1]._speed # <<>>
    /\ status_mappings[1][2].entries # <<>>
    /\ status_mappings[1][2].entries[1]._speed = <<>>
    /\ caller = "get_mirror_regions"

\* a region whose entries hold speeds is read again
C26_WitnessMemoized ==
    /\ Len(statusReads) = 2
    /\ statusReads[1].region = statusReads[2].region
    /\ statusReads[2].before # <<>>
    /\ \A i \in 1..Len(statusReads[2].before) : statusReads[2].before[i]._speed # <<>>
    /\ statusReads[2].list = statusReads[2].before

\* the fields the prompts of configure_reflector collect
Collected(r) == <<r.countries, r.protocols, r.age, r.latest, r.sort_order>>

\* a text that is no integer: it holds a character that is no digit, sign
\* or blank, or it holds no digit at all
NonInteger(text) ==
    \/ \E i \in 1..Len(text) :
           text[i] \notin {"0", "1", "2", "3", "4", "5", "6", "7", "8", "9", "+", "-", " "}
    \/ \A i \in 1..Len(text) :
           text[i] \notin {"0", "1", "2", "3", "4", "5", "6", "7", "8", "9"}

(***************************************************************************)
(* C27: in a run of configure_reflector the prompts for countries,         *)
(* protocols, age, latest and sort order are reached only after the        *)
(* operator selected Yes, and those fields differ from the preset only     *)
(* then; a run answered No returns the preset with enabled false and       *)
(* those fields as they were; a run that skips the first prompt returns    *)
(* the preset as it was; a text that is no integer, entered for age or     *)
(* for latest, leaves that field at its previous value.                    *)
(***************************************************************************)
C27_ConfigureReflectorFlow ==
    flow.pc # "idle" =>
        LET preset == flow.preset[1]
            before == flow.before[1]
        IN  /\ flow.pc \in {"loading", "countries", "protocols", "age", "latest", "sort"}
                   => flow.answer = "yes"
            /\ flow.answer # "yes" => Collected(preset) = Collected(before)
            /\ (flow.answer = "no" /\ flow.pc = "returned") =>
                   /\ preset.enabled = FALSE
                   /\ preset = [before EXCEPT !.enabled = FALSE]
            /\ flow.answer = "no" => flow.pc = "returned"
            /\ flow.answer = "skip" => flow.pc = "returned" /\ preset = before
            /\ (flow.age_text # <<>> /\ NonInteger(flow.age_text[1])) =>
                   preset.age = before.age
            /\ (flow.latest_text # <<>> /\ NonInteger(flow.latest_text[1])) =>
                   preset.latest = before.latest

\* a run answered Yes in which 'abc' was typed for age and '24' for latest:
\* age is the preset's, latest is 24
C27_Witness ==
    /\ flow.pc = "returned"
    /\ flow.answer = "yes"
    /\ flow.age_text = <<(<<"a", "b", "c">>)>>
    /\ flow.latest_text = <<(<<"2", "4">>)>>
    /\ flow.preset[1].age = flow.before[1].age
    /\ flow.preset[1].latest = 24
    /\ flow.preset[1].countries # flow.before[1].countries

\* a run answered No on a preset that was enabled
C27_WitnessNo ==
    /\ flow.pc = "returned"
    /\ flow.answer = "no"
    /\ flow.before[1].enabled
    /\ ~flow.preset[1].enabled

\* a run that skipped the first prompt on an enabled preset
C27_WitnessSkip ==
    /\ flow.pc = "returned"
    /\ flow.answer = "skip"
    /\ flow.preset[1].enabled
====
